---- MODULE Spec2Model ----
(***************************************************************************)
(* Layered-scope session store of google.adk.sessions:                     *)
(*   DatabaseSessionService  (database_session_service.py)                 *)
(*   VertexAiSessionService  (vertex_ai_session_service.py)                *)
(*                                                                         *)
(* Representation.                                                         *)
(*  - A state key is a sequence of tokens: <<"k1">> is the Python string   *)
(*    "k1", <<"app:", "k1">> is "app:k1".  str.startswith(prefix) is a     *)
(*    test of the first token, str.removeprefix is Tail, prefix + key is   *)
(*    <<prefix>> \o key.                                                    *)
(*  - A dict is a function whose DOMAIN is its key set; a | b is DictUnion.*)
(*  - The database clock (func.now()) is the variable now; it advances by  *)
(*    Tick.  Two statements may read the same value: CURRENT_TIMESTAMP of  *)
(*    SQLite and NOW() of MySQL have a resolution of one second.           *)
(*  - A datetime column holds whole microseconds.  A client timestamp      *)
(*    (event.timestamp, a float) is counted in half microseconds, so that  *)
(*    datetime.fromtimestamp's rounding to a microsecond is visible.       *)
(*  - append_event of the database service runs in a transaction of its    *)
(*    own: its SELECTs (AppendEventRead) and its flush/commit              *)
(*    (AppendEventCommit) are separate statements, and statements of       *)
(*    other connections may run between them.                              *)
(***************************************************************************)
EXTENDS Integers, Sequences, FiniteSets, TLC

VARIABLES
  now,          \* database clock, func.now()
  sessions,     \* table sessions:    (app_name,user_id,id) -> row
  events,       \* table events:      (app_name,user_id,session_id) -> rows in commit order
  app_states,   \* table app_states:  app_name -> row
  user_states,  \* table user_states: (app_name,user_id) -> row
  held,         \* per caller: the in-memory Session object it holds
  txn,          \* per caller: the open sql_session of an append_event
  result,       \* how the most recent call ended
  snap,         \* per caller (history): is the held object still a current snapshot
  writes,       \* (history) number of writing calls made so far
  listed,       \* the most recent ListSessionsResponse
  vx_sessions,  \* Agent Engine: session id -> session resource
  vx_events,    \* Agent Engine: session id -> appended events, oldest first
  blobs,        \* GCS bucket: blob name -> [data, content_type]
  art,          \* per caller: the artifact call it is in the middle of
  art_ret,      \* what the most recent artifact call returned or raised
  art_log,      \* (history) the saves that returned, oldest first
  concurrent,   \* (history) has an artifact call started while another was running
  flat_delta,   \* a flat state delta (input of the split)
  split_deltas, \* extract_state_delta(delta), once computed
  merged_view,  \* _merge_state of the three parts, once computed
  get_log,      \* the stored events of one session (input of get_session)
  get_config,   \* the GetSessionConfig of the call, or None
  get_events,   \* the events a get_session returned, once computed
  session_factories,   \* ServiceRegistry: scheme -> session service factory
  artifact_factories,  \* ServiceRegistry: scheme -> artifact service factory
  memory_factories,    \* ServiceRegistry: scheme -> memory service factory
  reg_ret       \* what the most recent create_*_service call did

vars == <<now, sessions, events, app_states, user_states, held, txn, result,
          snap, writes, listed, vx_sessions, vx_events,
          blobs, art, art_ret, art_log, concurrent,
          flat_delta, split_deltas, merged_view,
          get_log, get_config, get_events,
          session_factories, artifact_factories, memory_factories, reg_ret>>

storage == <<sessions, events, app_states, user_states>>

vxvars == <<vx_sessions, vx_events>>

artvars == <<blobs, art, art_ret, art_log, concurrent>>

getvars == <<get_log, get_config, get_events>>

factories == <<session_factories, artifact_factories, memory_factories>>

regvars == <<factories, reg_ret>>

fnvars == <<flat_delta, split_deltas, merged_view, getvars, regvars>>

-----------------------------------------------------------------------------
(* Bounds of the model *)

MaxWrites == 3

-----------------------------------------------------------------------------
(* Input domains *)

Apps == {"a"}

Users == {"u1", "u2"}

SessionIds == {"s1", "s2"}

Callers == {"A", "B"}

EventIds == {"e1", "e2"}

(* event.timestamp of the events the runtime emits, in half microseconds:
   the client clock is not monotonic across events *)
TimestampOf == [i \in EventIds |-> IF i = "e1" THEN 3 ELSE 1]

None == [none |-> TRUE]

IsNone(x) == "none" \in DOMAIN x

APP_PREFIX == "app:"

USER_PREFIX == "user:"

TEMP_PREFIX == "temp:"

K1 == <<"k1">>

K2 == <<"k2">>

AppK == <<APP_PREFIX, "k1">>

UserK == <<USER_PREFIX, "k1">>

TempK == <<TEMP_PREFIX, "k1">>

AppK2 == <<APP_PREFIX, "k2">>

UserK2 == <<USER_PREFIX, "k2">>

EmptyDict == [k \in {} |-> "v0"]

(* the shapes of event.actions.state_delta, by event: none, session keys
   only, app keys only, keys of every scope *)
DeltaKeySets ==
  [i \in EventIds |-> IF i = "e1" THEN {{}, {K1}}
                                  ELSE {{AppK}, {K2, AppK, UserK, TempK}}]

InitialStates == { EmptyDict, [k \in {K1, AppK, UserK, AppK2, UserK2} |-> "v0"] }

(* An Event as the runtime supplies it: the state_delta writes the event's
   own id as value, so that a stored value names the event that wrote it. *)
Events ==
  UNION { { [id |-> i, timestamp |-> TimestampOf[i], partial |-> FALSE,
             state_delta |-> [k \in ks |-> i]] : ks \in DeltaKeySets[i] } :
          i \in EventIds }

(* Streaming chunks: events with partial = True *)
PartialEvents ==
  { [id |-> i, timestamp |-> TimestampOf[i], partial |-> TRUE,
     state_delta |-> [k \in {K1} |-> i]] : i \in {"e1"} }

-----------------------------------------------------------------------------
(* Pure helpers *)

StartsWith(key, prefix) == Len(key) > 0 /\ key[1] = prefix

DictUnion(a, b) ==
  [k \in DOMAIN a \cup DOMAIN b |-> IF k \in DOMAIN b THEN b[k] ELSE a[k]]

Restrict(f, S) == [x \in S |-> f[x]]

(* _session_util.extract_state_delta *)
ExtractStateDelta(state) ==
  LET appKeys  == {k \in DOMAIN state : StartsWith(k, APP_PREFIX)}
      userKeys == {k \in DOMAIN state :
                     ~StartsWith(k, APP_PREFIX) /\ StartsWith(k, USER_PREFIX)}
      sessKeys == {k \in DOMAIN state :
                     /\ ~StartsWith(k, APP_PREFIX)
                     /\ ~StartsWith(k, USER_PREFIX)
                     /\ ~StartsWith(k, TEMP_PREFIX)}
  IN [app     |-> [k \in {Tail(x) : x \in appKeys}  |-> state[<<APP_PREFIX>> \o k]],
      user    |-> [k \in {Tail(x) : x \in userKeys} |-> state[<<USER_PREFIX>> \o k]],
      session |-> Restrict(state, sessKeys)]

(* BaseSessionService._trim_temp_delta_state *)
TrimTempDeltaState(event) ==
  [event EXCEPT !.state_delta =
     Restrict(@, {k \in DOMAIN @ : ~StartsWith(k, TEMP_PREFIX)})]

(* a merge that returns the session's own state alone *)
M_MergeState(app_state, user_state, session_state) == session_state

(* a merge that copies the app and user parts in without their prefixes *)
M_MergeStateNoPrefix(app_state, user_state, session_state) ==
  DictUnion(DictUnion(session_state, app_state), user_state)

(* _merge_state *)
MergeState(app_state, user_state, session_state) ==
  LET a == [k \in {<<APP_PREFIX>> \o x : x \in DOMAIN app_state} |-> app_state[Tail(k)]]
      u == [k \in {<<USER_PREFIX>> \o x : x \in DOMAIN user_state} |-> user_state[Tail(k)]]
  IN DictUnion(DictUnion(session_state, a), u)

(* datetime.fromtimestamp(event.timestamp): half microseconds to whole
   microseconds, rounding half to even *)
FromTimestamp(t) ==
  LET q == t \div 2
  IN IF t % 2 = 0 THEN q ELSE IF q % 2 = 0 THEN q ELSE q + 1

(* datetime.timestamp(): whole microseconds back to half microseconds *)
ToTimestamp(us) == 2 * us

(* StorageSession.update_timestamp_tz: the float of a microsecond datetime;
   a double resolves microseconds of the current epoch, so the conversion
   is one-to-one and monotone and the float is named by its microseconds *)
UpdateTimestampTz(storage_session) == storage_session.update_time

(* StorageEvent.from_event *)
FromEvent(session, event) ==
  [id |-> event.id,
   timestamp |-> FromTimestamp(event.timestamp),
   partial |-> event.partial,
   state_delta |-> event.state_delta]

(* StorageEvent.to_event *)
ToEvent(storage_event) ==
  [id |-> storage_event.id,
   timestamp |-> ToTimestamp(storage_event.timestamp),
   partial |-> storage_event.partial,
   state_delta |-> storage_event.state_delta]

(* StorageSession.to_session *)
ToSession(key, storage_session, state, evs) ==
  [app_name |-> key[1], user_id |-> key[2], id |-> key[3],
   state |-> state, events |-> evs,
   last_update_time |-> UpdateTimestampTz(storage_session)]

SessionKey(session) == <<session.app_name, session.user_id, session.id>>

HasSession(c) == ~IsNone(held[c])

Holds(c, key) == HasSession(c) /\ SessionKey(held[c]) = key

EventIdsOf(log) == {log[i].id : i \in 1..Len(log)}

-----------------------------------------------------------------------------
(* History variable snap: "fresh" while no other caller has committed to the
   session since the held object was returned by create_session/get_session
   or last updated by the holder's own append_event; "stale_append" once
   another caller's append_event has committed to it at a clock reading
   later than the held last_update_time ("stale_tie" when the two readings
   are the same); "raced" when that commit came while the holder's own
   append_event was between its reads and its commit; "stale_delete" once
   the session was deleted. *)

SnapAfterCommit(c, key) ==
  [d \in Callers |->
     IF d = c THEN "fresh"
     ELSE IF Holds(d, key) /\ snap[d] = "fresh"
          THEN IF ~IsNone(txn[d]) THEN "raced"
               ELSE IF now > held[d].last_update_time THEN "stale_append"
               ELSE "stale_tie"
     ELSE snap[d]]

SnapAfterDelete(key) ==
  [d \in Callers |-> IF Holds(d, key) THEN "stale_delete" ELSE snap[d]]

-----------------------------------------------------------------------------
(* State after construction: Base.metadata.create_all leaves empty tables *)

InitGet ==
  /\ get_log = <<>>
  /\ get_config = None
  /\ get_events = None

(* the global registry after _register_builtin_services.  A scheme is the
   text in its pieces: an upper-case letter is a piece of its own *)
InitRegistry ==
  /\ session_factories =
       (<<"agentengine">> :> "agentengine_session_factory")
         @@ [scheme \in {<<"sqlite">>, <<"postgresql">>, <<"mysql">>}
               |-> "database_session_factory"]
  /\ artifact_factories = (<<"gs">> :> "gcs_artifact_factory")
  /\ memory_factories = (<<"rag">> :> "rag_memory_factory")
                          @@ (<<"agentengine">> :> "agentengine_memory_factory")
  /\ reg_ret = [op |-> "none", uri |-> None, called |-> "none",
                raised |-> "", class |-> "None"]

(* the tables and the callers' objects before any session is created *)
InitTables ==
  /\ sessions = [k \in {} |-> None]
  /\ app_states = [k \in {} |-> None]
  /\ user_states = [k \in {} |-> None]
  /\ held = [c \in Callers |-> None]
  /\ snap = [c \in Callers |-> "none"]

(* everything but the tables and the callers' objects *)
InitOthers ==
  /\ InitRegistry
  /\ now = 0
  /\ events = [k \in Apps \X Users \X SessionIds |-> <<>>]
  /\ txn = [c \in Callers |-> None]
  /\ result = "ok"
  /\ writes = 0
  /\ listed = {}
  /\ vx_sessions = [k \in {} |-> None]
  /\ vx_events = [k \in {} |-> <<>>]
  /\ blobs = [k \in {} |-> None]
  /\ art = [c \in Callers |-> None]
  /\ art_ret = [op |-> "none", session_id |-> None, filename |-> <<>>,
                version_arg |-> None, kind |-> "none", version |-> 0,
                part |-> None, versions |-> {}, filenames |-> <<>>]
  /\ art_log = <<>>
  /\ concurrent = FALSE

InitStores ==
  /\ InitTables
  /\ InitOthers

Init ==
  /\ InitStores
  /\ InitGet
  /\ flat_delta = EmptyDict
  /\ split_deltas = None
  /\ merged_view = None

(* func.now() advances.  Clock values are only compared with each other, so
   a value that nobody has recorded leaves no trace when the clock moves on:
   the clock is shown advancing only past a recorded value. *)
ClockObserved ==
  \/ \E k \in DOMAIN sessions : sessions[k].update_time = now
  \/ \E c \in Callers : HasSession(c) /\ held[c].last_update_time = now
  \/ \E c \in Callers : ~IsNone(txn[c]) /\ txn[c].storage_session.update_time = now

Tick ==
  /\ ClockObserved
  /\ now' = now + 1
  /\ UNCHANGED <<sessions, events, app_states, user_states, held, txn, result,
                 snap, writes, listed, vxvars, artvars, fnvars>>

-----------------------------------------------------------------------------
(* DatabaseSessionService.create_session *)

CreateSessionCommit(c, app_name, user_id, state, id) ==
  LET key == <<app_name, user_id, id>>
      storage_app_state ==
        IF app_name \in DOMAIN app_states THEN app_states[app_name]
        ELSE [state |-> EmptyDict]
      storage_user_state ==
        IF <<app_name, user_id>> \in DOMAIN user_states
        THEN user_states[<<app_name, user_id>>]
        ELSE [state |-> EmptyDict]
      state_deltas == ExtractStateDelta(state)
      new_app == [state |-> DictUnion(storage_app_state.state, state_deltas.app)]
      new_user == [state |-> DictUnion(storage_user_state.state, state_deltas.user)]
      session_state == state_deltas.session
      storage_session ==
        [state |-> session_state, update_time |-> now]
      merged_state == MergeState(new_app.state, new_user.state, session_state)
  IN /\ app_states' = (app_name :> new_app) @@ app_states
     /\ user_states' = (<<app_name, user_id>> :> new_user) @@ user_states
     /\ sessions' = (key :> storage_session) @@ sessions
     /\ held' = [held EXCEPT ![c] = ToSession(key, storage_session, merged_state, <<>>)]
     /\ result' = "ok"
     /\ snap' = [SnapAfterDelete(key) EXCEPT ![c] = "fresh"]
     /\ writes' = writes + 1
     /\ UNCHANGED <<now, events, txn>>

(* a create_session that skips the lookup of the given id *)
M_AlreadyExists(app_name, user_id, session_id) == FALSE

(* if session_id and sql_session.get(StorageSession, (app_name, user_id, session_id)) *)
AlreadyExists(app_name, user_id, session_id) ==
  ~IsNone(session_id) /\ <<app_name, user_id, session_id.id>> \in DOMAIN sessions

CreateSession(c, app_name, user_id, state, session_id, uuids) ==
  /\ IsNone(txn[c])
  /\ UNCHANGED <<listed, vxvars, artvars, fnvars>>
  /\ IF AlreadyExists(app_name, user_id, session_id)
     THEN /\ result' = "AlreadyExistsError"
          /\ UNCHANGED <<now, sessions, events, app_states, user_states, held, txn, snap, writes>>
     ELSE \E id \in IF IsNone(session_id) THEN uuids ELSE {session_id.id} :
            /\ writes < MaxWrites
            \* a generated id (uuid.uuid4()) is new
            /\ IsNone(session_id) => <<app_name, user_id, id>> \notin DOMAIN sessions
            /\ CreateSessionCommit(c, app_name, user_id, state, id)

-----------------------------------------------------------------------------
(* DatabaseSessionService.get_session *)

(* query.order_by(StorageEvent.timestamp.desc()).all(), then reversed():
   every arrangement of the rows with non-decreasing timestamp; the order
   of rows with equal timestamp is the database's choice *)
OrderByTimestamp(rows) ==
  LET n == Len(rows)
      perms == {p \in [1..n -> 1..n] : \A i, j \in 1..n : i # j => p[i] # p[j]}
  IN { [i \in 1..n |-> rows[p[i]]] : p \in
         {q \in perms : \A i, j \in 1..n :
              i < j => rows[q[i]].timestamp <= rows[q[j]].timestamp} }

(* a get_session that answers None for a session it found *)
M_GetSessionResult(key, storage_events) == None

GetSessionResult(key, storage_events) ==
  LET app_state == IF key[1] \in DOMAIN app_states
                   THEN app_states[key[1]].state ELSE EmptyDict
      user_state == IF <<key[1], key[2]>> \in DOMAIN user_states
                    THEN user_states[<<key[1], key[2]>>].state ELSE EmptyDict
      merged_state == MergeState(app_state, user_state, sessions[key].state)
      evs == [i \in 1..Len(storage_events) |-> ToEvent(storage_events[i])]
  IN ToSession(key, sessions[key], merged_state, evs)

GetSession(c, app_name, user_id, session_id) ==
  LET key == <<app_name, user_id, session_id>>
  IN /\ IsNone(txn[c])
     /\ UNCHANGED <<listed, vxvars, artvars, fnvars>>
     /\ IF key \notin DOMAIN sessions
        THEN /\ held' = [held EXCEPT ![c] = None]
             /\ snap' = [snap EXCEPT ![c] = "none"]
        ELSE \E storage_events \in OrderByTimestamp(events[key]) :
               /\ held' = [held EXCEPT ![c] = GetSessionResult(key, storage_events)]
               /\ snap' = [snap EXCEPT ![c] = "fresh"]
     /\ result' = "ok"
     /\ UNCHANGED <<now, sessions, events, app_states, user_states, txn, writes>>

-----------------------------------------------------------------------------
(* DatabaseSessionService.list_sessions; user_id is None or [id |-> user].
   The query has no ORDER BY: the response is read as a set. *)

(* a list_sessions that merges the bucket of user u1 into every session *)
M_ListSessionsResponse(app_name, user_id) ==
  { ToSession(k, sessions[k],
              MergeState(EmptyDict,
                         IF <<app_name, "u1">> \in DOMAIN user_states
                         THEN user_states[<<app_name, "u1">>].state ELSE EmptyDict,
                         sessions[k].state), <<>>) :
      k \in {x \in DOMAIN sessions :
               x[1] = app_name /\ (IsNone(user_id) \/ x[2] = user_id.id)} }

(* a list_sessions that forgets the user filter of the sessions query *)
M_ListSessionsAllUsers(app_name, user_id) ==
  LET app_state == IF app_name \in DOMAIN app_states
                   THEN app_states[app_name].state ELSE EmptyDict
      user_state(k) == IF <<app_name, k[2]>> \in DOMAIN user_states
                       THEN user_states[<<app_name, k[2]>>].state ELSE EmptyDict
  IN { ToSession(k, sessions[k],
                 MergeState(app_state, user_state(k), sessions[k].state), <<>>) :
         k \in {x \in DOMAIN sessions : x[1] = app_name} }

ListSessionsResponse(app_name, user_id) ==
  LET results == {k \in DOMAIN sessions :
                    k[1] = app_name /\ (IsNone(user_id) \/ k[2] = user_id.id)}
      app_state == IF app_name \in DOMAIN app_states
                   THEN app_states[app_name].state ELSE EmptyDict
      user_states_map ==
        IF ~IsNone(user_id)
        THEN Restrict(user_states, {<<app_name, user_id.id>>} \cap DOMAIN user_states)
        ELSE Restrict(user_states, {u \in DOMAIN user_states : u[1] = app_name})
      user_state(k) == IF <<app_name, k[2]>> \in DOMAIN user_states_map
                       THEN user_states_map[<<app_name, k[2]>>].state ELSE EmptyDict
  IN { ToSession(k, sessions[k],
                 MergeState(app_state, user_state(k), sessions[k].state), <<>>) :
         k \in results }

(* a list_sessions that stores each merged view back into its session row *)
M_ListSessionsWriteBack(c, app_name, user_id) ==
  /\ IsNone(txn[c])
  /\ listed' = ListSessionsResponse(app_name, user_id)
  /\ result' = "ok"
  /\ sessions' =
       [k \in DOMAIN sessions |->
          [sessions[k] EXCEPT !.state =
             (CHOOSE x \in ListSessionsResponse(k[1], None) : SessionKey(x) = k).state]]
  /\ UNCHANGED <<now, events, app_states, user_states, held, txn,
                 snap, writes, vxvars, artvars, fnvars>>

ListSessions(c, app_name, user_id) ==
  /\ IsNone(txn[c])
  /\ listed' = ListSessionsResponse(app_name, user_id)
  /\ result' = "ok"
  /\ UNCHANGED <<now, sessions, events, app_states, user_states, held, txn,
                 snap, writes, vxvars, artvars, fnvars>>

-----------------------------------------------------------------------------
(* DatabaseSessionService.delete_session: DELETE FROM sessions, the events
   go with it (ForeignKeyConstraint ondelete="CASCADE") *)

(* a delete that leaves the event rows of the session behind *)
M_DeleteSession(c, app_name, user_id, session_id) ==
  /\ IsNone(txn[c])
  /\ writes < MaxWrites
  /\ writes' = writes + 1
  /\ sessions' = Restrict(sessions, DOMAIN sessions \ {<<app_name, user_id, session_id>>})
  /\ result' = "ok"
  /\ snap' = SnapAfterDelete(<<app_name, user_id, session_id>>)
  /\ UNCHANGED <<now, events, app_states, user_states, held, txn, listed, vxvars, artvars, fnvars>>

(* a delete that takes the user's bucket away with the session *)
M_DeleteSessionAndBucket(c, app_name, user_id, session_id) ==
  LET key == <<app_name, user_id, session_id>>
  IN /\ IsNone(txn[c])
     /\ UNCHANGED <<listed, vxvars, artvars, fnvars>>
     /\ writes < MaxWrites
     /\ writes' = writes + 1
     /\ sessions' = Restrict(sessions, DOMAIN sessions \ {key})
     /\ events' = [events EXCEPT ![key] = <<>>]
     /\ user_states' = Restrict(user_states,
                                DOMAIN user_states \ {<<app_name, user_id>>})
     /\ result' = "ok"
     /\ snap' = SnapAfterDelete(key)
     /\ UNCHANGED <<now, app_states, held, txn>>

DeleteSession(c, app_name, user_id, session_id) ==
  LET key == <<app_name, user_id, session_id>>
  IN /\ IsNone(txn[c])
     /\ UNCHANGED <<listed, vxvars, artvars, fnvars>>
     /\ writes < MaxWrites
     /\ writes' = writes + 1
     /\ sessions' = Restrict(sessions, DOMAIN sessions \ {key})
     /\ events' = [events EXCEPT ![key] = <<>>]
     /\ result' = "ok"
     /\ snap' = SnapAfterDelete(key)
     /\ UNCHANGED <<now, app_states, user_states, held, txn>>

-----------------------------------------------------------------------------
(* DatabaseSessionService.append_event *)

(* BaseSessionService.append_event: mirror the event into the caller's
   in-memory session object *)
BaseAppendEvent(session, event) ==
  IF event.partial THEN session
  ELSE LET e == TrimTempDeltaState(event)
       IN [session EXCEPT !.state = DictUnion(@, e.state_delta),
                          !.events = Append(@, e)]

(* if event.partial: return event *)
AppendEventPartial(c, event) ==
  /\ HasSession(c)
  /\ IsNone(txn[c])
  /\ event.partial
  /\ UNCHANGED <<listed, vxvars, artvars, fnvars>>
  /\ result' = "ok"
  /\ UNCHANGED <<now, sessions, events, app_states, user_states, held, txn, snap, writes>>

(* a stale check that also rejects an equal update time *)
M_IsStale(storage_session, session) ==
  UpdateTimestampTz(storage_session) >= session.last_update_time

(* the stale check: storage_session.update_timestamp_tz > session.last_update_time *)
IsStale(storage_session, session) ==
  UpdateTimestampTz(storage_session) > session.last_update_time

(* sql_session.get(StorageSession), the stale check, sql_session.get of the
   app and user state rows *)
AppendEventRead(c, ev) ==
  LET session == held[c]
      key == SessionKey(session)
      event == TrimTempDeltaState(ev)
  IN /\ HasSession(c)
     /\ IsNone(txn[c])
     /\ ~ev.partial
     /\ UNCHANGED <<listed, vxvars, artvars, fnvars>>
     /\ IF key \notin DOMAIN sessions
        THEN \* storage_session is None: None.update_timestamp_tz
             /\ result' = "AttributeError"
             /\ UNCHANGED <<txn, writes>>
        ELSE IF IsStale(sessions[key], session)
        THEN \* raise ValueError("... Please check if it is a stale session.")
             /\ result' = "ValueError"
             /\ UNCHANGED <<txn, writes>>
        ELSE /\ writes < MaxWrites
             /\ writes' = writes + 1
             /\ result' = "ok"
             /\ txn' = [txn EXCEPT ![c] =
                  [event |-> event,
                   storage_session |-> sessions[key],
                   storage_app_state |->
                     IF key[1] \in DOMAIN app_states
                     THEN app_states[key[1]] ELSE None,
                   storage_user_state |->
                     IF <<key[1], key[2]>> \in DOMAIN user_states
                     THEN user_states[<<key[1], key[2]>>] ELSE None]]
     /\ UNCHANGED <<now, sessions, events, app_states, user_states, held, snap>>

(* the UPDATE of the sessions row: issued only when a column of the row was
   assigned (session_state_delta non-empty); update_time follows through
   onupdate=func.now() of that UPDATE and not otherwise *)
UpdatedSessionRow(storage_session, session_state_delta) ==
  IF session_state_delta = EmptyDict THEN {}
  ELSE {[storage_session EXCEPT
           !.state = DictUnion(@, session_state_delta),
           !.update_time = now]}

(* a flush that stores the delta in place of the user's bucket *)
M_FlushedUserState(t, user_state_delta) ==
  IF user_state_delta = EmptyDict THEN {}
  ELSE {[state |-> user_state_delta]}

(* a flush that leaves the app_states row out *)
M_FlushedAppState(t, app_state_delta) == {}

(* what the flush writes: the rows assigned in the transaction, each as a
   whole value computed from what the transaction read *)
FlushedAppState(t, app_state_delta) ==
  IF app_state_delta = EmptyDict THEN {}
  ELSE {[state |-> DictUnion(t.storage_app_state.state, app_state_delta)]}

FlushedUserState(t, user_state_delta) ==
  IF user_state_delta = EmptyDict THEN {}
  ELSE {[state |-> DictUnion(t.storage_user_state.state, user_state_delta)]}

Put(table, k, rows) == IF rows = {} THEN table
                       ELSE (k :> (CHOOSE r \in rows : TRUE)) @@ table

(* an insert that replaces the rows of the session *)
M_InsertEvent(log, storage_event) == <<storage_event>>

(* sql_session.add(StorageEvent.from_event(session, event)) *)
InsertEvent(log, storage_event) == Append(log, storage_event)

(* a commit that does not enforce the primary key of the events table *)
M_CommitFails(key, t, state_deltas) ==
  \/ state_deltas.app # EmptyDict /\ IsNone(t.storage_app_state)
  \/ state_deltas.user # EmptyDict /\ IsNone(t.storage_user_state)
  \/ key \notin DOMAIN sessions

(* can the transaction commit: rows it assigns were read, the session row
   is still there (foreign key of the event row, UPDATE of the session
   row; the database enforces the declared foreign key), the event's
   primary key (id, app_name, user_id, session_id) is new *)
CommitFails(key, t, state_deltas) ==
  \/ state_deltas.app # EmptyDict /\ IsNone(t.storage_app_state)
  \/ state_deltas.user # EmptyDict /\ IsNone(t.storage_user_state)
  \/ key \notin DOMAIN sessions
  \/ t.event.id \in EventIdsOf(events[key])

AppendEventCommit(c) ==
  LET t == txn[c]
      session == held[c]
      key == SessionKey(session)
      state_deltas == ExtractStateDelta(t.event.state_delta)
  IN /\ ~IsNone(txn[c])
     /\ txn' = [txn EXCEPT ![c] = None]
     /\ UNCHANGED <<now, writes, listed, vxvars, artvars, fnvars>>
     /\ IF CommitFails(key, t, state_deltas)
        THEN \* the with block closes the sql_session: rollback
             /\ result' = "CommitError"
             /\ UNCHANGED <<sessions, events, app_states, user_states, held, snap>>
        ELSE /\ app_states' =
                  Put(app_states, key[1], FlushedAppState(t, state_deltas.app))
             /\ user_states' =
                  Put(user_states, <<key[1], key[2]>>,
                      FlushedUserState(t, state_deltas.user))
             /\ sessions' =
                  Put(sessions, key,
                      UpdatedSessionRow(t.storage_session, state_deltas.session))
             /\ events' = [events EXCEPT ![key] =
                              InsertEvent(@, FromEvent(session, t.event))]
             \* sql_session.refresh(storage_session); session.last_update_time = ...
             /\ held' = [held EXCEPT ![c] =
                  [BaseAppendEvent(session, t.event) EXCEPT
                     !.last_update_time = UpdateTimestampTz(sessions'[key])]]
             /\ result' = "ok"
             /\ snap' = SnapAfterCommit(c, key)

-----------------------------------------------------------------------------

SessionIdArgs(sids) == {None} \cup {[id |-> s] : s \in sids}

(* Two callers (two connections) working on one session *)
Next ==
  \/ Tick
  \/ \E c \in Callers, state \in InitialStates, session_id \in SessionIdArgs({"s1"}) :
       CreateSession(c, "a", "u1", state, session_id, {"s1"})
  \/ \E c \in Callers : GetSession(c, "a", "u1", "s1")
  \/ \E c \in Callers : DeleteSession(c, "a", "u1", "s1")
  \/ \E c \in Callers, event \in PartialEvents : AppendEventPartial(c, event)
  \/ \E c \in Callers, event \in Events : AppendEventRead(c, event)
  \/ \E c \in Callers : AppendEventCommit(c)

Spec == Init /\ [][Next]_vars

(* One caller working on the sessions of two users *)
UserIdArgs == {None} \cup {[id |-> u] : u \in Users}

NextScopes ==
  \/ Tick
  \/ \E user_id \in Users, state \in InitialStates, session_id \in SessionIdArgs({"s1"}) :
       CreateSession("A", "a", user_id, state, session_id, {"s1"})
  \/ \E user_id \in Users : GetSession("A", "a", user_id, "s1")
  \/ \E user_id \in UserIdArgs : ListSessions("A", "a", user_id)
  \/ \E user_id \in Users : DeleteSession("A", "a", user_id, "s1")
  \/ \E event \in PartialEvents : AppendEventPartial("A", event)
  \/ \E event \in Events : AppendEventRead("A", event)
  \/ AppendEventCommit("A")

SpecScopes == Init /\ [][NextScopes]_vars

(* One caller working on two sessions of one user and a session of another
   user.  A single caller's session object is replaced by every
   create_session and get_session and refreshed by its own append_event, so
   no stale check can fire and the clock reading has no effect: it is left
   where it is. *)
ScopeKeys == {<<"u1", "s1">>, <<"u1", "s2">>, <<"u2", "s1">>}

NextIsolation ==
  \/ \E k \in ScopeKeys, state \in InitialStates :
       CreateSession("A", "a", k[1], state, [id |-> k[2]], {})
  \/ \E k \in ScopeKeys : GetSession("A", "a", k[1], k[2])
  \/ \E k \in ScopeKeys : DeleteSession("A", "a", k[1], k[2])
  \/ \E event \in Events : AppendEventRead("A", event)
  \/ AppendEventCommit("A")

SpecIsolation == Init /\ [][NextIsolation]_vars

(* One caller creating, appending to, deleting and listing the sessions of
   two users *)
NextListing ==
  \/ \E k \in ScopeKeys, state \in InitialStates :
       CreateSession("A", "a", k[1], state, [id |-> k[2]], {})
  \/ \E user_id \in UserIdArgs : ListSessions("A", "a", user_id)
  \/ \E k \in ScopeKeys : DeleteSession("A", "a", k[1], k[2])
  \/ \E event \in Events : AppendEventRead("A", event)
  \/ AppendEventCommit("A")

SpecListing == Init /\ [][NextListing]_vars

(* Two callers appending to two different sessions of one user: caller A
   holds session s1 and caller B session s2 of user u1, both as
   create_session returned them when called with the same initial state. *)

SharedKeys == [c \in Callers |-> IF c = "A" THEN <<"a", "u1", "s1">>
                                            ELSE <<"a", "u1", "s2">>]

(* A's event writes app:k and user:k; B's event writes app:k2 and user:k2,
   or the keys that A's event writes *)
SharedDeltaKeySets ==
  [c \in Callers |-> IF c = "A" THEN {{AppK, UserK}}
                                ELSE {{AppK2, UserK2}, {AppK, UserK}}]

SharedEvents(c) ==
  LET i == IF c = "A" THEN "e1" ELSE "e2"
  IN { [id |-> i, timestamp |-> TimestampOf[i], partial |-> FALSE,
        state_delta |-> [k \in ks |-> i]] : ks \in SharedDeltaKeySets[c] }

InitShared ==
  /\ InitOthers
  /\ InitGet
  /\ flat_delta = EmptyDict
  /\ split_deltas = None
  /\ merged_view = None
  /\ \E state \in InitialStates :
       LET state_deltas == ExtractStateDelta(state)
           storage_session == [state |-> state_deltas.session, update_time |-> 0]
           merged_state == MergeState(state_deltas.app, state_deltas.user,
                                      state_deltas.session)
       IN /\ app_states = ("a" :> [state |-> state_deltas.app])
          /\ user_states = (<<"a", "u1">> :> [state |-> state_deltas.user])
          /\ sessions = [k \in {SharedKeys[c] : c \in Callers} |-> storage_session]
          /\ held = [c \in Callers |->
                       ToSession(SharedKeys[c], storage_session, merged_state, <<>>)]
          /\ snap = [c \in Callers |-> "fresh"]

NextShared ==
  \/ Tick
  \/ \E c \in Callers : GetSession(c, "a", "u1", SharedKeys[c][3])
  \/ \E c \in Callers : \E event \in SharedEvents(c) : AppendEventRead(c, event)
  \/ \E c \in Callers : AppendEventCommit(c)

SpecShared == InitShared /\ [][NextShared]_vars

-----------------------------------------------------------------------------
(* The split and the merge as functions of their input alone.  A flat delta
   is split by extract_state_delta (lines 491-494 and 664-669) and the three
   parts are put together again by _merge_state (lines 692-699), as
   to_session does for the response.  The deltas carry keys of the three
   persisted scopes, among them keys whose remainder itself starts with a
   scope prefix. *)
AppUserK == <<APP_PREFIX, USER_PREFIX, "k1">>

UserAppK == <<USER_PREFIX, APP_PREFIX, "k1">>

DeltaKeys == {K1, K2, AppK, UserK, AppUserK, UserAppK}

Deltas ==
  UNION { [ks -> {"v0", "v1"}] : ks \in SUBSET DeltaKeys }

InitMerge ==
  /\ InitStores
  /\ InitGet
  /\ flat_delta \in Deltas
  /\ split_deltas = None
  /\ merged_view = None

SplitDelta ==
  /\ IsNone(split_deltas)
  /\ split_deltas' = ExtractStateDelta(flat_delta)
  /\ UNCHANGED <<now, storage, held, txn, result, snap, writes, listed,
                 vxvars, artvars, flat_delta, merged_view, getvars, regvars>>

MergeParts ==
  /\ ~IsNone(split_deltas)
  /\ IsNone(merged_view)
  /\ merged_view' = [state |-> MergeState(split_deltas.app, split_deltas.user,
                                          split_deltas.session)]
  /\ UNCHANGED <<now, storage, held, txn, result, snap, writes, listed,
                 vxvars, artvars, flat_delta, split_deltas, getvars, regvars>>

NextMerge ==
  \/ SplitDelta
  \/ MergeParts

SpecMerge == InitMerge /\ [][NextMerge]_vars

-----------------------------------------------------------------------------
(* VertexAiSessionService.  vx_sessions and vx_events are the resources the
   Agent Engine keeps; what the service does with a request is stated at the
   call that sends it. *)

(* names the Agent Engine gives to the events of a session, in order *)
ServerEventIds == <<"x1", "x2", "x3", "x4", "x5">>

(* api_client.agent_engines.sessions.create: the service names the session
   and stores session_state *)
VxCreateSession(c, app_name, user_id, state, session_id) ==
  /\ UNCHANGED <<now, sessions, events, app_states, user_states, txn, snap, listed,
                 artvars, fnvars>>
  /\ IF ~IsNone(session_id)
     THEN \* User-provided Session id is not supported
          /\ result' = "ValueError"
          /\ UNCHANGED <<held, writes, vxvars>>
     ELSE \E id \in SessionIds \ DOMAIN vx_sessions :
            LET get_session_response ==
                  [user_id |-> user_id, session_state |-> state, update_time |-> 0]
            IN /\ writes < MaxWrites
               /\ writes' = writes + 1
               /\ vx_sessions' = (id :> get_session_response) @@ vx_sessions
               /\ vx_events' = (id :> <<>>) @@ vx_events
               /\ held' = [held EXCEPT ![c] =
                    [app_name |-> app_name, user_id |-> user_id, id |-> id,
                     state |-> get_session_response.session_state, events |-> <<>>,
                     last_update_time |-> ToTimestamp(get_session_response.update_time)]]
               /\ result' = "ok"

(* _from_api_event *)
FromApiEvent(api_event) ==
  [id |-> api_event.name,
   timestamp |-> ToTimestamp(api_event.timestamp),
   partial |-> api_event.event_metadata.partial,
   state_delta |-> api_event.actions.state_delta]

(* a get_session that does not compare the user of the session *)
M_VxGetSession(c, app_name, user_id, session_id) ==
  /\ UNCHANGED <<now, sessions, events, app_states, user_states, txn, snap,
                 listed, writes, vxvars, artvars, fnvars>>
  /\ IF session_id \notin DOMAIN vx_sessions
     THEN /\ result' = "ClientError"
          /\ held' = held
     ELSE LET get_session_response == vx_sessions[session_id]
              update_timestamp == ToTimestamp(get_session_response.update_time)
          IN /\ result' = "ok"
             /\ held' = [held EXCEPT ![c] =
                  [app_name |-> app_name, user_id |-> user_id, id |-> session_id,
                   state |-> get_session_response.session_state,
                   events |-> <<>>,
                   last_update_time |-> update_timestamp]]

(* VertexAiSessionService.get_session (config = None) *)
VxGetSession(c, app_name, user_id, session_id) ==
  /\ UNCHANGED <<now, sessions, events, app_states, user_states, txn, snap,
                 listed, writes, vxvars, artvars, fnvars>>
  /\ IF session_id \notin DOMAIN vx_sessions
     THEN \* sessions.get answers 404
          /\ result' = "ClientError"
          /\ held' = held
     ELSE LET get_session_response == vx_sessions[session_id]
              update_timestamp == ToTimestamp(get_session_response.update_time)
              Kept(api_event) == ToTimestamp(api_event.timestamp) <= update_timestamp
              kept == SelectSeq(vx_events[session_id], Kept)
          IN IF get_session_response.user_id # user_id
             THEN /\ result' = "ValueError"
                  /\ held' = held
             ELSE /\ result' = "ok"
                  /\ held' = [held EXCEPT ![c] =
                       [app_name |-> app_name, user_id |-> user_id, id |-> session_id,
                        state |-> get_session_response.session_state,
                        events |-> [i \in 1..Len(kept) |-> FromApiEvent(kept[i])],
                        last_update_time |-> update_timestamp]]

(* api_client.agent_engines.sessions.delete *)
VxDeleteSession(c, app_name, user_id, session_id) ==
  /\ UNCHANGED <<now, sessions, events, app_states, user_states, txn, snap,
                 listed, held, artvars, fnvars>>
  /\ writes < MaxWrites
  /\ writes' = writes + 1
  /\ IF session_id \notin DOMAIN vx_sessions
     THEN /\ result' = "ClientError"
          /\ UNCHANGED vxvars
     ELSE /\ result' = "ok"
          /\ vx_sessions' = Restrict(vx_sessions, DOMAIN vx_sessions \ {session_id})
          /\ vx_events' = Restrict(vx_events, DOMAIN vx_events \ {session_id})

(* the request of append_event: config and event_metadata as built from the
   event; event.id is not sent *)
AppendRequest(event) ==
  [timestamp |-> FromTimestamp(event.timestamp),
   actions |-> [state_delta |-> event.state_delta],
   event_metadata |-> [partial |-> event.partial]]

(* api_client.agent_engines.sessions.events.append: the service names the
   event, appends it, applies its state_delta to session_state and moves
   update_time to the event's timestamp *)
EngineAppend(session_id, request) ==
  /\ vx_events' = [vx_events EXCEPT ![session_id] =
        Append(@, [name |-> ServerEventIds[Len(@) + 1]] @@ request)]
  /\ vx_sessions' = [vx_sessions EXCEPT ![session_id] =
        [@ EXCEPT !.session_state = DictUnion(@, request.actions.state_delta),
                  !.update_time = IF request.timestamp > @ THEN request.timestamp ELSE @]]

(* VertexAiSessionService.append_event *)
VxAppendEvent(c, event) ==
  /\ HasSession(c)
  /\ UNCHANGED <<now, sessions, events, app_states, user_states, txn, snap, listed,
                 artvars, fnvars>>
  /\ writes < MaxWrites
  /\ writes' = writes + 1
  \* await super().append_event(session=session, event=event)
  /\ held' = [held EXCEPT ![c] = BaseAppendEvent(held[c], event)]
  /\ IF held[c].id \notin DOMAIN vx_sessions
     THEN /\ result' = "ClientError"
          /\ UNCHANGED vxvars
     ELSE /\ result' = "ok"
          /\ EngineAppend(held[c].id, AppendRequest(event))

NextVertex ==
  \/ \E c \in Callers, user_id \in Users, state \in InitialStates,
        session_id \in SessionIdArgs({"s1"}) :
       VxCreateSession(c, "a", user_id, state, session_id)
  \/ \E c \in Callers, user_id \in Users, session_id \in SessionIds :
       VxGetSession(c, "a", user_id, session_id)
  \/ \E c \in Callers, user_id \in Users, session_id \in SessionIds :
       VxDeleteSession(c, "a", user_id, session_id)
  \/ \E c \in Callers, event \in Events \cup PartialEvents : VxAppendEvent(c, event)

SpecVertex == Init /\ [][NextVertex]_vars

-----------------------------------------------------------------------------
(* get_session with a GetSessionConfig.  Which events a call returns is a
   function of the events stored for the session and of the config; each
   backend computes it in its own way. *)

GetLogIds == <<"g1", "g2", "g3">>

(* the events stored for one session, oldest first, with their timestamps in
   whole microseconds *)
GetLogs ==
  { [i \in 1..Len(ts) |-> [id |-> GetLogIds[i], timestamp |-> ts[i]]] :
      ts \in { s \in UNION {[1..n -> 1..3] : n \in 0..3} :
                 \A i, j \in 1..Len(s) : i < j => s[i] <= s[j] } }

(* GetSessionConfig: both fields are optional; after_timestamp is a float,
   kept in half microseconds like Event.timestamp *)
GetSessionConfigs ==
  {None} \cup
  { [num_recent_events |-> n, after_timestamp |-> a] :
      n \in {None, [value |-> 0], [value |-> 1], [value |-> 2]},
      a \in {None, [value |-> 2], [value |-> 4], [value |-> 5], [value |-> 6]} }

(* `if config.num_recent_events`, `if config.after_timestamp`: None and 0
   are both false *)
Given(option) == ~IsNone(option) /\ option.value # 0

(* seq[-n:] and, on rows taken newest first, limit(n) *)
LastN(seq, n) ==
  IF n >= Len(seq) THEN seq ELSE SubSeq(seq, Len(seq) - n + 1, Len(seq))

(* the rows of table events for the log *)
StorageEvents(log) ==
  [i \in 1..Len(log) |-> [id |-> log[i].id, timestamp |-> log[i].timestamp,
                          partial |-> FALSE, state_delta |-> EmptyDict]]

(* the events the Agent Engine holds for the log *)
ApiEvents(log) ==
  [i \in 1..Len(log) |-> [name |-> log[i].id, timestamp |-> log[i].timestamp,
                          event_metadata |-> [partial |-> FALSE],
                          actions |-> [state_delta |-> EmptyDict]]]

(* DatabaseSessionService.get_session, the events query: the results the
   database may give (rows of equal timestamp come in the order it chooses) *)
DbGetEvents(storage_events, config) ==
  LET After(storage_event) ==
        storage_event.timestamp >= FromTimestamp(config.after_timestamp.value)
      filtered == IF ~IsNone(config) /\ Given(config.after_timestamp)
                  THEN SelectSeq(storage_events, After)
                  ELSE storage_events
      limit == IF ~IsNone(config) /\ Given(config.num_recent_events)
               THEN config.num_recent_events.value
               ELSE Len(filtered)
  IN { [i \in 1..Len(LastN(ordered, limit)) |-> ToEvent(LastN(ordered, limit)[i])] :
         ordered \in OrderByTimestamp(filtered) }

(* VertexAiSessionService.get_session: is the timestamp filter sent *)
VxUsesFilter(config) ==
  /\ ~IsNone(config)
  /\ ~Given(config.num_recent_events)
  /\ Given(config.after_timestamp)

(* VertexAiSessionService.get_session, the events of the answer *)
VxGetEvents(api_events, update_time, config) ==
  LET After(api_event) ==
        api_event.timestamp >= FromTimestamp(config.after_timestamp.value)
      events_iterator == IF VxUsesFilter(config)
                         THEN SelectSeq(api_events, After)
                         ELSE api_events
      update_timestamp == ToTimestamp(update_time)
      Kept(api_event) == ToTimestamp(api_event.timestamp) <= update_timestamp
      kept == SelectSeq(events_iterator, Kept)
      session_events == [i \in 1..Len(kept) |-> FromApiEvent(kept[i])]
  IN IF ~IsNone(config) /\ Given(config.num_recent_events)
     THEN LastN(session_events, config.num_recent_events.value)
     ELSE session_events

(* update_time of a session: the timestamp of its newest event *)
UpdateTimeOf(log) ==
  IF log = <<>> THEN 0
  ELSE LET stamps == {log[i].timestamp : i \in 1..Len(log)}
       IN CHOOSE t \in stamps : \A u \in stamps : u <= t

InitGetEvents ==
  /\ InitStores
  /\ flat_delta = EmptyDict
  /\ split_deltas = None
  /\ merged_view = None
  /\ get_log \in GetLogs
  /\ get_config \in GetSessionConfigs
  /\ get_events = None

DbGetSessionEvents ==
  /\ IsNone(get_events)
  /\ \E evs \in DbGetEvents(StorageEvents(get_log), get_config) :
       get_events' = [backend |-> "database", events |-> evs]
  /\ UNCHANGED <<now, storage, held, txn, result, snap, writes, listed,
                 vxvars, artvars, flat_delta, split_deltas, merged_view,
                 get_log, get_config, regvars>>

VxGetSessionEvents ==
  /\ IsNone(get_events)
  /\ get_events' = [backend |-> "vertex",
                    events |-> VxGetEvents(ApiEvents(get_log), UpdateTimeOf(get_log),
                                           get_config)]
  /\ UNCHANGED <<now, storage, held, txn, result, snap, writes, listed,
                 vxvars, artvars, flat_delta, split_deltas, merged_view,
                 get_log, get_config, regvars>>

NextGetEvents ==
  \/ DbGetSessionEvents
  \/ VxGetSessionEvents

SpecGetEvents == InitGetEvents /\ [][NextGetEvents]_vars

-----------------------------------------------------------------------------
(* ServiceRegistry (cli/service_registry.py): a service is chosen by the
   scheme of a URI.  A URI is kept as the text before its first ":" (empty
   when it has none) and the rest. *)

CustomSchemes == { <<"c", "ustom">>, <<"C", "ustom">> }

Schemes == CustomSchemes \cup { <<"sqlite">> }

CustomFactories == { "factory1", "factory2" }

Uris ==
  { [scheme |-> <<"sqlite">>, rest |-> "/a.db"],
    [scheme |-> <<"postgresql">>, rest |-> "h/d"],
    [scheme |-> <<"mysql">>, rest |-> "h/d"],
    [scheme |-> <<"agentengine">>, rest |-> ""],
    [scheme |-> <<"agentengine">>, rest |-> "projects/p/locations/l/reasoningEngines/1"],
    [scheme |-> <<"gs">>, rest |-> "b"],
    [scheme |-> <<"c", "ustom">>, rest |-> "x"],
    [scheme |-> <<"C", "ustom">>, rest |-> "x"],
    [scheme |-> <<"redis">>, rest |-> "x"],
    [scheme |-> <<>>, rest |-> "/tmp/x"] }

(* str.lower() on the pieces of a scheme *)
Lower(text) == [i \in 1..Len(text) |-> IF text[i] = "C" THEN "c" ELSE text[i]]

(* urlparse(uri).scheme: the text before the first ":", lower-cased (every
   text used here is made of scheme characters and starts with a letter) *)
UrlparseScheme(uri) == Lower(uri.scheme)

(* what calling a factory with the URI gives: an instance or an exception *)
FactoryCall(factory, uri) ==
  CASE factory = "database_session_factory" ->
         [raised |-> "", class |-> "DatabaseSessionService"]
    [] factory = "agentengine_session_factory" ->
         \* _parse_agent_engine_kwargs(parsed.netloc + parsed.path, ...)
         IF uri.rest = "" THEN [raised |-> "ValueError", class |-> "None"]
         ELSE [raised |-> "", class |-> "VertexAiSessionService"]
    [] factory = "gcs_artifact_factory" ->
         [raised |-> "", class |-> "GcsArtifactService"]
    [] factory = "factory1" -> [raised |-> "", class |-> "Service1"]
    [] factory = "factory2" -> [raised |-> "", class |-> "Service2"]

(* create_session_service, create_artifact_service *)
CreateService(op, registered, uri) ==
  LET scheme == UrlparseScheme(uri)
  IN IF scheme # <<>> /\ scheme \in DOMAIN registered
     THEN [op |-> op, uri |-> uri, called |-> registered[scheme]]
            @@ FactoryCall(registered[scheme], uri)
     ELSE [op |-> op, uri |-> uri, called |-> "none", raised |-> "", class |-> "None"]

NoRegistryVars ==
  UNCHANGED <<now, storage, held, txn, result, snap, listed, vxvars, artvars,
              flat_delta, split_deltas, merged_view, getvars>>

RegisterSessionService(scheme, factory) ==
  /\ writes < MaxWrites
  /\ writes' = writes + 1
  /\ session_factories' = (scheme :> factory) @@ session_factories
  /\ UNCHANGED <<artifact_factories, memory_factories, reg_ret>>
  /\ NoRegistryVars

RegisterArtifactService(scheme, factory) ==
  /\ writes < MaxWrites
  /\ writes' = writes + 1
  /\ artifact_factories' = (scheme :> factory) @@ artifact_factories
  /\ UNCHANGED <<session_factories, memory_factories, reg_ret>>
  /\ NoRegistryVars

RegisterMemoryService(scheme, factory) ==
  /\ writes < MaxWrites
  /\ writes' = writes + 1
  /\ memory_factories' = (scheme :> factory) @@ memory_factories
  /\ UNCHANGED <<session_factories, artifact_factories, reg_ret>>
  /\ NoRegistryVars

CreateSessionService(uri) ==
  /\ reg_ret' = CreateService("create_session_service", session_factories, uri)
  /\ UNCHANGED <<factories, writes>>
  /\ NoRegistryVars

CreateArtifactService(uri) ==
  /\ reg_ret' = CreateService("create_artifact_service", artifact_factories, uri)
  /\ UNCHANGED <<factories, writes>>
  /\ NoRegistryVars

NextRegistry ==
  \/ \E scheme \in Schemes, factory \in CustomFactories :
       RegisterSessionService(scheme, factory)
  \/ \E scheme \in CustomSchemes, factory \in CustomFactories :
       RegisterArtifactService(scheme, factory)
  \/ \E scheme \in CustomSchemes, factory \in {"factory1"} :
       RegisterMemoryService(scheme, factory)
  \/ \E uri \in Uris : CreateSessionService(uri)
  \/ \E uri \in Uris : CreateArtifactService(uri)

SpecRegistry == Init /\ [][NextRegistry]_vars

-----------------------------------------------------------------------------
(* GcsArtifactService (artifacts/gcs_artifact_service.py).  The bucket maps
   blob names to objects.  A name is the string the service formats, kept as
   its pieces: the "/" separators, the "user:" marker and the parts between
   them are tokens, so that startswith, split("/") and the prefix match of
   list_blobs are computed on the name itself.  Every public method hands
   its work to a thread (asyncio.to_thread, lines 54-137), so the calls of
   two callers interleave between their requests to the bucket. *)
USER_NAMESPACE == "user:"

F == <<"f">>

UF == <<USER_NAMESPACE, "f">>

Filenames == {F, UF}

(* a filename with a directory part: "f/g" *)
FG == <<"f", "/", "g">>

DecimalDigits == <<"0", "1", "2", "3", "4", "5", "6", "7", "8", "9">>

(* f"{version}" for a version of one digit; "" is the empty string *)
Str(version) == <<DecimalDigits[version + 1]>>

(* int(version) *)
ParseInt(version) == CHOOSE v \in 0..(Len(DecimalDigits) - 1) : Str(v) = version

(* str.encode: the bytes of a text, one token per byte *)
Utf8(text) == IF text = "" THEN <<>> ELSE <<"t", "1">>

D1 == <<"d", "1">>

DEFAULT_CONTENT_TYPE == "text/plain"

(* types.Part: inline_data and file_data are None or an object, text is
   absent (<<>>) or one string *)
Part(inline_data, text, file_data) ==
  [inline_data |-> inline_data, text |-> text, file_data |-> file_data]

InlinePart(data, mime_type) ==
  Part([data |-> data, mime_type |-> mime_type], <<>>, None)

(* the artifacts and custom_metadata a caller passes to save_artifact *)
SaveArgs ==
  { [artifact |-> InlinePart(D1, "image/png"), custom_metadata |-> FALSE],
    [artifact |-> InlinePart(<<>>, "image/png"), custom_metadata |-> FALSE],
    [artifact |-> Part(None, <<"t1">>, None), custom_metadata |-> FALSE],
    [artifact |-> Part(None, <<"">>, None), custom_metadata |-> FALSE],
    [artifact |-> Part(None, <<>>, [file_uri |-> "gs://b/o"]), custom_metadata |-> FALSE],
    [artifact |-> InlinePart(D1, "image/png"), custom_metadata |-> TRUE] }

VersionArgs == {None, [version |-> 0], [version |-> 1]}

(* a check that takes every filename for a user-namespace filename *)
M_FileHasUserNamespace(filename) == TRUE

(* _file_has_user_namespace *)
FileHasUserNamespace(filename) == StartsWith(filename, USER_NAMESPACE)

(* _get_blob_name raises ValueError *)
SessionIdMissing(filename, session_id) ==
  ~FileHasUserNamespace(filename) /\ IsNone(session_id)

(* _get_blob_name, when it returns; version is the formatted version *)
GetBlobName(app_name, user_id, filename, version, session_id) ==
  IF FileHasUserNamespace(filename)
  THEN <<app_name, "/", user_id, "/", "user", "/">> \o filename \o <<"/">> \o version
  ELSE <<app_name, "/", user_id, "/", session_id.id, "/">> \o filename \o <<"/">> \o version

(* storage_client.list_blobs(bucket, prefix=prefix) *)
ListBlobs(prefix) ==
  {name \in DOMAIN blobs :
     Len(name) >= Len(prefix) /\ SubSeq(name, 1, Len(prefix)) = prefix}

(* *_, version = blob.name.split("/") *)
LastSegment(name) ==
  LET i == CHOOSE j \in 1..Len(name) :
             name[j] = "/" /\ \A l \in (j + 1)..Len(name) : name[l] # "/"
  IN SubSeq(name, i + 1, Len(name))

(* _list_versions, when _get_blob_name returns *)
ListVersions(app_name, user_id, session_id, filename) ==
  {ParseInt(LastSegment(name)) :
     name \in ListBlobs(GetBlobName(app_name, user_id, filename, <<>>, session_id))}

Max(S) == CHOOSE x \in S : \A y \in S : y <= x

(* the characters of a piece of a name *)
Chars(token) ==
  CASE token = USER_NAMESPACE -> <<"u", "s", "e", "r", ":">>
    [] token = "user" -> <<"u", "s", "e", "r">>
    [] token = "u1" -> <<"u", "1">>
    [] token = "s1" -> <<"s", "1">>
    [] OTHER -> <<token>>

RECURSIVE Flatten(_)
Flatten(name) ==
  IF name = <<>> THEN <<>> ELSE Chars(Head(name)) \o Flatten(Tail(name))

(* ord(ch) *)
Ord(ch) ==
  CASE ch = "/" -> 47 [] ch = "0" -> 48 [] ch = "1" -> 49 [] ch = "2" -> 50
    [] ch = "3" -> 51 [] ch = "4" -> 52 [] ch = "5" -> 53 [] ch = "6" -> 54
    [] ch = "7" -> 55 [] ch = "8" -> 56 [] ch = "9" -> 57 [] ch = ":" -> 58
    [] ch = "a" -> 97 [] ch = "e" -> 101 [] ch = "f" -> 102 [] ch = "g" -> 103
    [] ch = "r" -> 114 [] ch = "s" -> 115 [] ch = "u" -> 117

(* x < y for two strings, given by their characters *)
RECURSIVE CharsLess(_, _)
CharsLess(x, y) ==
  IF y = <<>> THEN FALSE
  ELSE IF x = <<>> THEN TRUE
  ELSE IF Head(x) # Head(y) THEN Ord(Head(x)) < Ord(Head(y))
  ELSE CharsLess(Tail(x), Tail(y))

StrLess(x, y) == CharsLess(Flatten(x), Flatten(y))

(* sorted(names): also the order in which list_blobs returns blob names *)
RECURSIVE SortedStrs(_)
SortedStrs(S) ==
  IF S = {} THEN <<>>
  ELSE LET m == CHOOSE x \in S : \A y \in S \ {x} : StrLess(x, y)
       IN <<m>> \o SortedStrs(S \ {m})

(* the list _list_versions returns: one entry per blob under the prefix,
   in the order of the blob names *)
ListVersionsList(app_name, user_id, session_id, filename) ==
  LET names == SortedStrs(ListBlobs(GetBlobName(app_name, user_id, filename,
                                                <<>>, session_id)))
  IN [i \in 1..Len(names) |-> ParseInt(LastSegment(names[i]))]

(* name.split("/") *)
RECURSIVE Split(_)
Split(name) ==
  IF \A i \in 1..Len(name) : name[i] # "/" THEN <<name>>
  ELSE LET i == CHOOSE j \in 1..Len(name) :
                  name[j] = "/" /\ \A l \in 1..(j - 1) : name[l] # "/"
       IN <<SubSeq(name, 1, i - 1)>> \o Split(SubSeq(name, i + 1, Len(name)))

(* *_, filename, _ = blob.name.split("/") *)
FilenameSegment(name) == Split(name)[Len(Split(name)) - 1]

(* _list_artifact_keys *)
ListArtifactKeysResult(app_name, user_id, session_id) ==
  LET session_blobs ==
        IF IsNone(session_id) THEN {}
        ELSE ListBlobs(<<app_name, "/", user_id, "/", session_id.id, "/">>)
      user_namespace_blobs == ListBlobs(<<app_name, "/", user_id, "/", "user", "/">>)
      filenames == {FilenameSegment(name) : name \in session_blobs \cup user_namespace_blobs}
  IN SortedStrs(filenames)

(* what a call returned or raised *)
Returned(op, session_id, filename, version_arg, kind, version, part) ==
  [op |-> op, session_id |-> session_id, filename |-> filename,
   version_arg |-> version_arg, kind |-> kind, version |-> version,
   part |-> part, versions |-> {}, filenames |-> <<>>]

Raised(op, session_id, filename, error) ==
  Returned(op, session_id, filename, None, error, 0, None)

Overlaps(c) == concurrent \/ \E other \in Callers \ {c} : ~IsNone(art[other])

NoSessionVars ==
  UNCHANGED <<now, storage, held, txn, result, snap, listed, vxvars, fnvars>>

(* save_artifact up to the version it computes (lines 189-199) *)
SaveList(c, session_id, filename, args) ==
  /\ IsNone(art[c])
  /\ writes < MaxWrites
  /\ concurrent' = Overlaps(c)
  /\ NoSessionVars
  /\ UNCHANGED <<blobs, art_log>>
  /\ IF args.custom_metadata
     THEN /\ art_ret' = Raised("save", session_id, filename, "NotImplementedError")
          /\ UNCHANGED <<art, writes>>
     ELSE IF SessionIdMissing(filename, session_id)
     THEN /\ art_ret' = Raised("save", session_id, filename, "ValueError")
          /\ UNCHANGED <<art, writes>>
     ELSE LET versions == ListVersions("a", "u1", session_id, filename)
              version == IF versions = {} THEN 0 ELSE Max(versions) + 1
          IN /\ art' = [art EXCEPT ![c] =
                          [op |-> "save", session_id |-> session_id,
                           filename |-> filename, artifact |-> args.artifact,
                           version |-> version, versions |-> <<>>]]
             /\ writes' = writes + 1
             /\ UNCHANGED art_ret

(* an upload that leaves an object that is already there as it is *)
M_Upload(name, data, content_type) ==
  IF name \in DOMAIN blobs THEN blobs
  ELSE (name :> [data |-> data, content_type |-> content_type]) @@ blobs

(* blob.upload_from_string(data, content_type) *)
Upload(name, data, content_type) ==
  (name :> [data |-> data, content_type |-> content_type]) @@ blobs

(* a test of the text that takes the empty string for a text *)
M_Truthy(text) == text # <<>>

Truthy(text) == text # <<>> /\ text[1] # ""

(* save_artifact from the blob name on (lines 201-223) *)
SaveUpload(c) ==
  /\ ~IsNone(art[c])
  /\ art[c].op = "save"
  /\ LET session_id == art[c].session_id
         filename == art[c].filename
         artifact == art[c].artifact
         version == art[c].version
         blob_name == GetBlobName("a", "u1", filename, Str(version), session_id)
         saved(data, content_type) ==
           /\ blobs' = Upload(blob_name, data, content_type)
           /\ art_ret' = Returned("save", session_id, filename, None,
                                  "version", version, None)
           /\ art_log' = Append(art_log,
                                [op |-> "save", prefix |->
                                   GetBlobName("a", "u1", filename, <<>>, session_id),
                                 session_id |-> session_id, filename |-> filename,
                                 version |-> version, artifact |-> artifact])
     IN IF ~IsNone(artifact.inline_data)
        THEN saved(artifact.inline_data.data, artifact.inline_data.mime_type)
        ELSE IF Truthy(artifact.text)
        THEN saved(Utf8(artifact.text[1]), DEFAULT_CONTENT_TYPE)
        ELSE IF ~IsNone(artifact.file_data)
        THEN /\ art_ret' = Raised("save", session_id, filename, "NotImplementedError")
             /\ UNCHANGED <<blobs, art_log>>
        ELSE /\ art_ret' = Raised("save", session_id, filename, "ValueError")
             /\ UNCHANGED <<blobs, art_log>>
  /\ art' = [art EXCEPT ![c] = None]
  /\ NoSessionVars
  /\ UNCHANGED <<writes, concurrent>>

(* types.Part.from_bytes(data, mime_type) *)
FromBytes(data, mime_type) == InlinePart(data, mime_type)

(* what _load_artifact returns or raises for the bucket as it is *)
LoadArtifactResult(session_id, filename, version_arg) ==
  LET ret(kind, part) ==
        Returned("load", session_id, filename, version_arg, kind, 0, part)
      versions == ListVersions("a", "u1", session_id, filename)
  IN IF SessionIdMissing(filename, session_id)
     THEN Raised("load", session_id, filename, "ValueError")
     ELSE IF IsNone(version_arg) /\ versions = {}
     THEN ret("none", None)
     ELSE LET version == IF IsNone(version_arg) THEN Max(versions)
                         ELSE version_arg.version
              blob_name == GetBlobName("a", "u1", filename, Str(version), session_id)
          IN IF blob_name \notin DOMAIN blobs
             THEN \* blob.download_as_bytes() of an object that is not there
                  [ret("NotFound", None) EXCEPT !.version = version]
             ELSE IF blobs[blob_name].data = <<>>
             THEN [ret("none", None) EXCEPT !.version = version]
             ELSE [ret("part", FromBytes(blobs[blob_name].data,
                                         blobs[blob_name].content_type))
                     EXCEPT !.version = version]

(* load_artifact *)
LoadArtifact(c, session_id, filename, version_arg) ==
  /\ IsNone(art[c])
  /\ art_ret' = LoadArtifactResult(session_id, filename, version_arg)
  /\ concurrent' = Overlaps(c)
  /\ NoSessionVars
  /\ UNCHANGED <<blobs, art, art_log, writes>>

(* list_versions *)
ListVersionsCall(c, session_id, filename) ==
  /\ IsNone(art[c])
  /\ art_ret' =
       IF SessionIdMissing(filename, session_id)
       THEN Raised("list_versions", session_id, filename, "ValueError")
       ELSE [Returned("list_versions", session_id, filename, None, "versions", 0, None)
               EXCEPT !.versions = ListVersions("a", "u1", session_id, filename)]
  /\ concurrent' = Overlaps(c)
  /\ NoSessionVars
  /\ UNCHANGED <<blobs, art, art_log, writes>>

(* list_artifact_keys *)
ListArtifactKeys(c, session_id) ==
  /\ IsNone(art[c])
  /\ art_ret' = [Returned("list_keys", session_id, <<>>, None, "filenames", 0, None)
                   EXCEPT !.filenames = ListArtifactKeysResult("a", "u1", session_id)]
  /\ concurrent' = Overlaps(c)
  /\ NoSessionVars
  /\ UNCHANGED <<blobs, art, art_log, writes>>

(* delete_artifact up to the versions it lists (lines 288-293) *)
DeleteList(c, session_id, filename) ==
  /\ IsNone(art[c])
  /\ writes < MaxWrites
  /\ concurrent' = Overlaps(c)
  /\ NoSessionVars
  /\ UNCHANGED blobs
  /\ IF SessionIdMissing(filename, session_id)
     THEN /\ art_ret' = Raised("delete", session_id, filename, "ValueError")
          /\ UNCHANGED <<art, art_log, writes>>
     ELSE LET versions == ListVersionsList("a", "u1", session_id, filename)
          IN /\ writes' = writes + 1
             /\ art_log' = Append(art_log,
                                  [op |-> "delete", prefix |->
                                     GetBlobName("a", "u1", filename, <<>>, session_id),
                                   session_id |-> session_id, filename |-> filename,
                                   version |-> 0, artifact |-> Part(None, <<>>, None)])
             /\ IF versions = <<>>
                THEN /\ art_ret' = Returned("delete", session_id, filename, None,
                                            "none", 0, None)
                     /\ UNCHANGED art
                ELSE /\ art' = [art EXCEPT ![c] =
                                  [op |-> "delete", session_id |-> session_id,
                                   filename |-> filename,
                                   artifact |-> Part(None, <<>>, None),
                                   version |-> 0, versions |-> versions]]
                     /\ UNCHANGED art_ret

(* one turn of the loop of delete_artifact: blob.delete() (lines 294-299) *)
DeleteBlob(c) ==
  /\ ~IsNone(art[c])
  /\ art[c].op = "delete"
  /\ LET session_id == art[c].session_id
         filename == art[c].filename
         version == Head(art[c].versions)
         blob_name == GetBlobName("a", "u1", filename, Str(version), session_id)
     IN IF blob_name \notin DOMAIN blobs
        THEN \* blob.delete() of an object that is not there
             /\ art_ret' = Raised("delete", session_id, filename, "NotFound")
             /\ art' = [art EXCEPT ![c] = None]
             /\ UNCHANGED blobs
        ELSE /\ blobs' = Restrict(blobs, DOMAIN blobs \ {blob_name})
             /\ IF Tail(art[c].versions) = <<>>
                THEN /\ art_ret' = Returned("delete", session_id, filename, None,
                                            "none", 0, None)
                     /\ art' = [art EXCEPT ![c] = None]
                ELSE /\ art' = [art EXCEPT ![c].versions = Tail(@)]
                     /\ UNCHANGED art_ret
  /\ NoSessionVars
  /\ UNCHANGED <<art_log, writes, concurrent>>

(* Two callers working on one session-scoped artifact, with and without
   the session id *)
ArtifactKeys ==
  { [session_id |-> [id |-> "s1"], filename |-> F],
    [session_id |-> None, filename |-> F] }

NextArtifacts ==
  \/ \E c \in Callers, k \in ArtifactKeys, args \in SaveArgs :
       SaveList(c, k.session_id, k.filename, args)
  \/ \E c \in Callers : SaveUpload(c)
  \/ \E c \in Callers, k \in ArtifactKeys, version_arg \in VersionArgs :
       LoadArtifact(c, k.session_id, k.filename, version_arg)
  \/ \E c \in Callers, k \in ArtifactKeys : ListVersionsCall(c, k.session_id, k.filename)
  \/ \E c \in Callers, k \in ArtifactKeys : DeleteList(c, k.session_id, k.filename)
  \/ \E c \in Callers : DeleteBlob(c)

SpecArtifacts == Init /\ [][NextArtifacts]_vars

(* One caller working on a session-scoped filename, without a session id and
   in the sessions "s1" and "user", and on a user-namespace filename,
   without a session id and in session "s1" *)
NamespaceKeys ==
  { [session_id |-> None, filename |-> F],
    [session_id |-> [id |-> "s1"], filename |-> F],
    [session_id |-> [id |-> "user"], filename |-> F],
    [session_id |-> None, filename |-> UF],
    [session_id |-> [id |-> "s1"], filename |-> UF] }

PathSaveArgs ==
  { [artifact |-> InlinePart(D1, "image/png"), custom_metadata |-> FALSE],
    [artifact |-> Part(None, <<"t1">>, None), custom_metadata |-> FALSE] }

InlineSave == [artifact |-> InlinePart(D1, "image/png"), custom_metadata |-> FALSE]

NextNamespaces ==
  \/ \E k \in NamespaceKeys : SaveList("A", k.session_id, k.filename, InlineSave)
  \/ SaveUpload("A")
  \/ \E k \in NamespaceKeys : LoadArtifact("A", k.session_id, k.filename, None)
  \/ \E k \in NamespaceKeys : ListVersionsCall("A", k.session_id, k.filename)
  \/ \E session_id \in SessionIdArgs({"s1", "user"}) : ListArtifactKeys("A", session_id)
  \/ \E k \in NamespaceKeys : DeleteList("A", k.session_id, k.filename)
  \/ DeleteBlob("A")

SpecNamespaces == Init /\ [][NextNamespaces]_vars

(* One caller working on the filenames "f" and "f/g" of session s1 and on
   the user-namespace filename *)
PathKeys ==
  { [session_id |-> [id |-> "s1"], filename |-> F],
    [session_id |-> [id |-> "s1"], filename |-> FG],
    [session_id |-> None, filename |-> UF] }

NextPaths ==
  \/ \E k \in PathKeys, args \in PathSaveArgs :
       SaveList("A", k.session_id, k.filename, args)
  \/ SaveUpload("A")
  \/ \E k \in PathKeys, version_arg \in VersionArgs :
       LoadArtifact("A", k.session_id, k.filename, version_arg)
  \/ \E k \in PathKeys : ListVersionsCall("A", k.session_id, k.filename)
  \/ \E session_id \in SessionIdArgs({"s1"}) : ListArtifactKeys("A", session_id)
  \/ \E k \in PathKeys : DeleteList("A", k.session_id, k.filename)
  \/ DeleteBlob("A")

SpecPaths == Init /\ [][NextPaths]_vars

(* One caller using the session service and the artifact service side by
   side: sessions of two users, and file "f" of session s1 *)
SideKeys == {<<"u1", "s1">>, <<"u2", "s1">>}

NextSideBySide ==
  \/ \E k \in SideKeys, state \in InitialStates :
       CreateSession("A", "a", k[1], state, [id |-> k[2]], {})
  \/ \E k \in SideKeys : GetSession("A", "a", k[1], k[2])
  \/ \E user_id \in UserIdArgs : ListSessions("A", "a", user_id)
  \/ \E k \in SideKeys : DeleteSession("A", "a", k[1], k[2])
  \/ \E event \in Events : AppendEventRead("A", event)
  \/ AppendEventCommit("A")
  \/ SaveList("A", [id |-> "s1"], F, InlineSave)
  \/ SaveUpload("A")
  \/ LoadArtifact("A", [id |-> "s1"], F, None)

SpecSideBySide == Init /\ [][NextSideBySide]_vars

(* One caller deleting and creating again a session that has state and an
   event.  The tables start as create_session(state) followed by
   append_event(event) leave them; no caller holds the session. *)
InitRecreate ==
  /\ InitRegistry
  /\ InitGet
  /\ flat_delta = EmptyDict
  /\ split_deltas = None
  /\ merged_view = None
  /\ now = 0
  /\ txn = [c \in Callers |-> None]
  /\ result = "ok"
  /\ writes = 0
  /\ listed = {}
  /\ vx_sessions = [k \in {} |-> None]
  /\ vx_events = [k \in {} |-> <<>>]
  /\ blobs = [k \in {} |-> None]
  /\ art = [c \in Callers |-> None]
  /\ art_ret = [op |-> "none", session_id |-> None, filename |-> <<>>,
                version_arg |-> None, kind |-> "none", version |-> 0,
                part |-> None, versions |-> {}, filenames |-> <<>>]
  /\ art_log = <<>>
  /\ concurrent = FALSE
  /\ held = [c \in Callers |-> None]
  /\ snap = [c \in Callers |-> "none"]
  /\ \E state \in InitialStates, ev \in Events :
       LET key == <<"a", "u1", "s1">>
           event == TrimTempDeltaState(ev)
           created == ExtractStateDelta(state)
           appended == ExtractStateDelta(event.state_delta)
           storage_session ==
             [state |-> DictUnion(created.session, appended.session),
              update_time |-> 0]
           session == ToSession(key, storage_session, EmptyDict, <<>>)
       IN /\ app_states =
               ("a" :> [state |-> DictUnion(created.app, appended.app)])
          /\ user_states =
               (<<"a", "u1">> :> [state |-> DictUnion(created.user, appended.user)])
          /\ sessions = (key :> storage_session)
          /\ events = [k \in Apps \X Users \X SessionIds |->
                         IF k = key THEN <<FromEvent(session, event)>> ELSE <<>>]

NextRecreate ==
  \/ \E state \in InitialStates :
       CreateSession("A", "a", "u1", state, [id |-> "s1"], {})
  \/ GetSession("A", "a", "u1", "s1")
  \/ DeleteSession("A", "a", "u1", "s1")
  \/ \E event \in Events : AppendEventRead("A", event)
  \/ AppendEventCommit("A")

SpecRecreate == InitRecreate /\ [][NextRecreate]_vars

(* The two backends side by side, each with sessions of two users: caller A
   works on a DatabaseSessionService, caller B on a VertexAiSessionService *)
(* the events appended: e1, with and without a state delta *)
BackendEvents == {event \in Events : event.id = "e1"}

NextBackends ==
  \/ \E k \in SideKeys, state \in InitialStates :
       CreateSession("A", "a", k[1], state, [id |-> k[2]], {})
  \/ \E user_id \in Users, session_id \in SessionIds :
       GetSession("A", "a", user_id, session_id)
  \/ \E event \in BackendEvents : AppendEventRead("A", event)
  \/ AppendEventCommit("A")
  \/ \E user_id \in Users, state \in InitialStates :
       VxCreateSession("B", "a", user_id, state, None)
  \/ \E user_id \in Users, session_id \in SessionIds :
       VxGetSession("B", "a", user_id, session_id)
  \/ \E event \in BackendEvents : VxAppendEvent("B", event)

SpecBackends == Init /\ [][NextBackends]_vars

-----------------------------------------------------------------------------
(* Vocabulary of the claims *)

S1 == <<"a", "u1", "s1">>

NoTxnOpen == \A d \in Callers : IsNone(txn[d])

(* the step is the SELECT part of a non-partial append_event of caller c *)
IsAppendRead(c) == \E ev \in Events : AppendEventRead(c, ev)

(* the row of the transaction's event is the last row of the session's log *)
EventRowWritten(c) ==
  LET key == SessionKey(held[c])
  IN events'[key] = Append(events[key], FromEvent(held[c], txn[c].event))

(* d is contained in dict: same keys, same values *)
DictContains(dict, d) ==
  \A k \in DOMAIN d : k \in DOMAIN dict /\ dict[k] = d[k]

-----------------------------------------------------------------------------
(* C1: when another caller's non-partial append_event has committed to the
   session since caller c took its snapshot (at a clock reading later than
   the snapshot's last_update_time), and no append is in flight, c's
   append_event with the old snapshot fails with the stale-session error
   and writes nothing. *)
C1_StaleAppendRejected ==
  [][\A c \in Callers :
       (snap[c] = "stale_append" /\ NoTxnOpen /\ IsAppendRead(c))
         => (result' = "ValueError" /\ IsNone(txn'[c]) /\ UNCHANGED storage)]_vars

(* C2: when two append_event calls started from the same snapshot and one
   commits while the other is between its reads and its commit, the other
   never commits successfully with a session-scoped key of the first changed
   back by its read-modify-write. *)
LostUpdate(c) ==
  LET key == SessionKey(held[c])
      mine == ExtractStateDelta(txn[c].event.state_delta).session
  IN \E k \in DOMAIN sessions[key].state \ DOMAIN mine :
        \/ k \notin DOMAIN sessions'[key].state
        \/ sessions'[key].state[k] # sessions[key].state[k]

C2_NoSilentOverwrite ==
  [][\A c \in Callers :
       (AppendEventCommit(c) /\ snap[c] = "raced" /\ SessionKey(held[c]) \in DOMAIN sessions)
         => ~(result' = "ok" /\ LostUpdate(c))]_vars

(* C3: every successful non-partial append_event that commits at a clock
   reading later than the stored update_time leaves the stored update_time
   of the session at the commit time, strictly later than before the call,
   and the caller's session.last_update_time equal to the stored value. *)
C3_UpdateTimeAdvances ==
  [][\A c \in Callers :
       (AppendEventCommit(c) /\ result' = "ok"
          /\ now > sessions[SessionKey(held[c])].update_time)
         => LET key == SessionKey(held[c])
            IN /\ sessions'[key].update_time = now
               /\ sessions'[key].update_time > sessions[key].update_time
               /\ held'[c].last_update_time = UpdateTimestampTz(sessions'[key])]_vars

(* C4: an append_event is all-or-nothing: its SELECT part writes nothing, and
   the step that ends its transaction either leaves the four tables as they
   were or adds the event row and leaves each part of the event's delta in
   its bucket. *)
AllApplied(c) ==
  LET key == SessionKey(held[c])
      d == ExtractStateDelta(txn[c].event.state_delta)
  IN /\ EventRowWritten(c)
     /\ key[1] \in DOMAIN app_states'
     /\ DictContains(app_states'[key[1]].state, d.app)
     /\ <<key[1], key[2]>> \in DOMAIN user_states'
     /\ DictContains(user_states'[<<key[1], key[2]>>].state, d.user)
     /\ key \in DOMAIN sessions'
     /\ DictContains(sessions'[key].state, d.session)

C4_AllOrNothing ==
  [][\A c \in Callers :
       /\ IsAppendRead(c) => UNCHANGED storage
       /\ (~IsNone(txn[c]) /\ IsNone(txn'[c])) => (AllApplied(c) \/ UNCHANGED storage)]_vars

(* reached: a commit that failed on a duplicate event id after another event
   had written all three buckets *)
C4_Witness ==
  /\ result = "CommitError"
  /\ Len(events[S1]) = 1
  /\ K2 \in DOMAIN sessions[S1].state
  /\ "k1" \in {k[1] : k \in DOMAIN app_states["a"].state}


(* C6: the events get_session returns are in commit order, whatever their
   client timestamps. *)
C6_CommitOrder ==
  [][\A c \in Callers :
       (GetSession(c, "a", "u1", "s1") /\ S1 \in DOMAIN sessions)
         => [i \in 1..Len(held'[c].events) |-> held'[c].events[i].id]
              = [i \in 1..Len(events[S1]) |-> events[S1][i].id]]_vars

(* C8: an append_event on a session object whose session was deleted (and
   not created again) fails with NotFound and writes nothing. *)
C8_AppendAfterDeleteNotFound ==
  [][\A c \in Callers :
       (IsAppendRead(c) /\ snap[c] = "stale_delete"
          /\ SessionKey(held[c]) \notin DOMAIN sessions)
         => (result' = "NotFound" /\ IsNone(txn'[c]) /\ UNCHANGED storage)]_vars

(* C9 as claimed: an append_event on a fresh snapshot never fails with the
   stale-session error and commits the event. *)
C9_FreshAppendCommits ==
  [][\A c \in Callers :
       /\ (IsAppendRead(c) /\ snap[c] = "fresh")
            => (result' # "ValueError" /\ ~IsNone(txn'[c]))
       /\ (AppendEventCommit(c) /\ snap[c] = "fresh")
            => (result' = "ok" /\ EventRowWritten(c))]_vars

(* C9 as amended: an append_event on a fresh snapshot never fails with the
   stale-session error, and commits the event unless the session's log
   already holds an event with the same id. *)
C9_FreshAppendCommitsNewId ==
  [][\A c \in Callers :
       /\ (IsAppendRead(c) /\ snap[c] = "fresh")
            => (result' # "ValueError" /\ ~IsNone(txn'[c]))
       /\ (AppendEventCommit(c) /\ snap[c] = "fresh"
             /\ txn[c].event.id \notin EventIdsOf(events[SessionKey(held[c])]))
            => (result' = "ok" /\ EventRowWritten(c))]_vars

(* reached: an append from a fresh snapshot committed as the second event
   of the session and refreshed the caller's session object, while the
   other caller's snapshot became stale *)
C9_Witness ==
  \E c \in Callers :
    /\ result = "ok" /\ snap[c] = "fresh" /\ Holds(c, S1)
    /\ \E d \in Callers \ {c} : snap[d] = "stale_append"
    /\ Len(events[S1]) = 2
    /\ Len(held[c].events) = 2
    /\ held[c].events[2].id = events[S1][2].id
    /\ sessions[S1].update_time > 0

(* C10: create_session with a session_id that exists for (app, user) fails
   with AlreadyExists and leaves the four tables as they were. *)
C10_CreateExistingFails ==
  [][\A c \in Callers, state \in InitialStates :
       (CreateSession(c, "a", "u1", state, [id |-> "s1"], {"s1"})
          /\ S1 \in DOMAIN sessions)
         => (result' = "AlreadyExistsError" /\ UNCHANGED <<storage, held>>)]_vars

(* reached: a create_session carrying app- and user-scoped keys was refused
   for a session that has an event, while the buckets hold other values *)
C10_Witness ==
  /\ result = "AlreadyExistsError"
  /\ S1 \in DOMAIN sessions
  /\ Len(events[S1]) = 1
  /\ <<"k1">> \in DOMAIN app_states["a"].state
  /\ app_states["a"].state[<<"k1">>] # "v0"


(* C5: append_event with event.partial = True changes nothing that is
   stored, in the database service and in the Vertex AI service: the event
   log, the state and the update time stay as they were and no write reaches
   the backend. *)
C5_PartialNotPersisted ==
  [][\A c \in Callers, ev \in PartialEvents :
       (AppendEventPartial(c, ev) \/ VxAppendEvent(c, ev))
         => UNCHANGED <<storage, vxvars>>]_vars

IsPrefix(a, b) == Len(a) <= Len(b) /\ \A i \in 1..Len(a) : b[i] = a[i]

(* C7: a step that is not delete_session of session k leaves every committed
   event of k in k's log, unchanged and in place. *)
C7_AppendOnly ==
  [][\A k \in DOMAIN events :
       \/ IsPrefix(events[k], events'[k])
       \/ \E c \in Callers : DeleteSession(c, k[1], k[2], k[3])]_vars

(* reached: after an event was committed to the session of u1, a session of
   u2 was created and list_sessions answered with both *)
C7_Witness ==
  /\ Len(events[S1]) = 1
  /\ <<"a", "u2", "s1">> \in DOMAIN sessions
  /\ Holds("A", <<"a", "u2", "s1">>)
  /\ Cardinality(listed) = 2
  /\ writes = MaxWrites


-----------------------------------------------------------------------------
(* Claims about the scopes of state, checked with one caller over the
   sessions of two users (SpecScopes) *)

U2S1 == <<"a", "u2", "s1">>

StateOf(table, k) == IF k \in DOMAIN table THEN table[k].state ELSE EmptyDict

Prefixed(prefix, keys) == {<<prefix>> \o k : k \in keys}

(* view is the merged view of the three buckets: the session's own keys as
   they are, the app's and the user's keys under their prefix *)
IsMergedView(view, app_state, user_state, session_state) ==
  /\ DOMAIN view = DOMAIN session_state \cup Prefixed(APP_PREFIX, DOMAIN app_state)
                     \cup Prefixed(USER_PREFIX, DOMAIN user_state)
  /\ \A k \in DOMAIN app_state : view[<<APP_PREFIX>> \o k] = app_state[k]
  /\ \A k \in DOMAIN user_state : view[<<USER_PREFIX>> \o k] = user_state[k]
  /\ \A k \in DOMAIN session_state :
       k \notin Prefixed(APP_PREFIX, DOMAIN app_state)
                  \cup Prefixed(USER_PREFIX, DOMAIN user_state)
         => view[k] = session_state[k]

(* bucket new is bucket old with the keys of the given prefix of delta put
   in (prefix taken off), incoming values winning, other keys kept *)
IsUpsert(new, old, delta, prefix) ==
  LET incoming == {k \in DOMAIN delta : k[1] = prefix}
  IN /\ DOMAIN new = DOMAIN old \cup {Tail(k) : k \in incoming}
     /\ \A k \in incoming : new[Tail(k)] = delta[k]
     /\ \A k \in DOMAIN old : <<prefix>> \o k \notin incoming => new[k] = old[k]

Unprefixed(delta) ==
  {k \in DOMAIN delta : k[1] \notin {APP_PREFIX, USER_PREFIX, TEMP_PREFIX}}

(* C11: a create_session that succeeds puts the app: keys of the initial
   state into the app's bucket and the user: keys into the user's bucket
   (incoming values win, other stored keys stay), stores the remaining keys
   as the session's state, leaves the session's event log empty, and returns
   the merged view of the three buckets as they are after the commit. *)
C11_CreateSplitsState ==
  [][\A user_id \in Users, state \in InitialStates, session_id \in SessionIdArgs({"s1"}) :
       (result' = "ok" /\ writes' # writes
          /\ CreateSession("A", "a", user_id, state, session_id, {"s1"}))
         => LET key == <<"a", user_id, "s1">>
            IN /\ IsUpsert(StateOf(app_states', "a"), StateOf(app_states, "a"),
                           state, APP_PREFIX)
               /\ IsUpsert(StateOf(user_states', <<"a", user_id>>),
                           StateOf(user_states, <<"a", user_id>>), state, USER_PREFIX)
               /\ key \in DOMAIN sessions'
               /\ sessions'[key].state = Restrict(state, Unprefixed(state))
               /\ events'[key] = <<>>
               /\ held'["A"].events = <<>>
               /\ IsMergedView(held'["A"].state, app_states'["a"].state,
                               user_states'[<<"a", user_id>>].state,
                               sessions'[key].state)]_vars

(* reached: the app's bucket held k1 written by event e2 of u1's session;
   the create_session for u2 with app:k1 in its initial state replaced it *)
C11_Witness ==
  /\ Holds("A", U2S1)
  /\ Len(events[S1]) = 1 /\ events[S1][1].id = "e2"
  /\ StateOf(app_states, "a") = [k \in {K1, K2} |-> "v0"]
  /\ held["A"].state = [k \in {K1, AppK, UserK, AppK2, UserK2} |-> "v0"]
  /\ U2S1 \in DOMAIN sessions
  /\ sessions[U2S1].state = [k \in {K1} |-> "v0"]

(* C12: delete_session removes the session row and its event rows and
   nothing else: the app's and the users' buckets and every other session
   stay as they are; for a session that does not exist it changes nothing
   and raises no error; a get_session that follows answers None. *)
C12_DeleteRemovesOnlySession ==
  [][\A user_id \in Users :
       LET key == <<"a", user_id, "s1">>
       IN /\ (writes' # writes /\ DeleteSession("A", "a", user_id, "s1"))
               => /\ result' = "ok"
                  /\ key \notin DOMAIN sessions'
                  /\ events'[key] = <<>>
                  /\ UNCHANGED <<app_states, user_states>>
                  /\ \A k \in DOMAIN sessions \ {key} :
                       k \in DOMAIN sessions' /\ sessions'[k] = sessions[k]
                  /\ \A k \in DOMAIN events \ {key} : events'[k] = events[k]
                  /\ key \notin DOMAIN sessions => UNCHANGED storage
          /\ (key \notin DOMAIN sessions /\ GetSession("A", "a", user_id, "s1"))
               => IsNone(held'["A"])]_vars

(* reached: u1's session, which had an event, was deleted while u2's session
   and the app's bucket stayed, and get_session of the deleted session
   answered None *)
C12_Witness ==
  /\ S1 \notin DOMAIN sessions
  /\ U2S1 \in DOMAIN sessions
  /\ "a" \in DOMAIN app_states /\ <<"a", "u1">> \in DOMAIN user_states
  /\ StateOf(user_states, <<"a", "u1">>) # EmptyDict
  /\ writes = MaxWrites
  /\ IsNone(held["A"])
  /\ result = "ok"

(* C13: get_session answers None exactly when there is no session row
   (app, user, session_id); for a session that exists without events it
   answers a Session object with an empty event list. *)
C13_NotFoundVersusEmpty ==
  [][\A user_id \in Users :
       LET key == <<"a", user_id, "s1">>
       IN (/\ UNCHANGED <<writes, storage>>
           /\ IsNone(held'["A"]) \/ Holds("A", key)'
           /\ GetSession("A", "a", user_id, "s1"))
            => /\ IsNone(held'["A"]) <=> key \notin DOMAIN sessions
               /\ (key \in DOMAIN sessions /\ events[key] = <<>>)
                    => (Holds("A", key)' /\ held'["A"].events = <<>>)]_vars

(* reached: get_session of u1's session, which exists with empty state and
   without events, answered a Session object after the caller had held the
   session of u2 *)
C13_Witness ==
  /\ S1 \in DOMAIN sessions
  /\ Holds("A", S1)
  /\ held["A"].events = <<>> /\ held["A"].state = EmptyDict
  /\ sessions[S1].state = EmptyDict /\ events[S1] = <<>>
  /\ U2S1 \in DOMAIN sessions /\ sessions[U2S1].update_time > sessions[S1].update_time


U1S2 == <<"a", "u1", "s2">>

(* the merged state of session T as get_session returns it, as list_sessions
   of the app returns it, and as list_sessions of T's user returns it *)
View(T, v) ==
  LET InList(resp) == (CHOOSE x \in resp : SessionKey(x) = T).state
  IN CASE v = "get" -> GetSessionResult(T, events[T]).state
       [] v = "list_app" -> InList(ListSessionsResponse(T[1], None))
       [] v = "list_user" -> InList(ListSessionsResponse(T[1], [id |-> T[2]]))

KeysWith(view, prefixes) == {k \in DOMAIN view : k[1] \in prefixes}

(* C14: when append_event commits a state_delta to session S, in every
   merged view (get_session, list_sessions) of every other session T: the
   unprefixed keys are as before; each app: key of the delta shows the new
   value; each user: key shows the new value if T is of S's user, and the
   user: keys are as before if T is of another user.  In every state a
   view of T is made of T's own row, T's user's bucket and the app's
   bucket and of nothing else. *)
C14_ScopeIsolation ==
  [][/\ (AppendEventCommit("A") /\ result' = "ok")
          => LET S == SessionKey(held["A"])
                 delta == txn["A"].event.state_delta
             IN \A T \in DOMAIN sessions' \ {S} : \A v \in {"get", "list_app", "list_user"} :
                  \A old \in {View(T, v)}, new \in {View(T, v)'} :
                  LET own == {APP_PREFIX, USER_PREFIX}
                  IN /\ Restrict(new, DOMAIN new \ KeysWith(new, own))
                          = Restrict(old, DOMAIN old \ KeysWith(old, own))
                     /\ \A k \in KeysWith(delta, {APP_PREFIX}) :
                          k \in DOMAIN new /\ new[k] = delta[k]
                     /\ T[2] = S[2] =>
                          \A k \in KeysWith(delta, {USER_PREFIX}) :
                            k \in DOMAIN new /\ new[k] = delta[k]
                     /\ T[2] # S[2] =>
                          Restrict(new, KeysWith(new, {USER_PREFIX}))
                            = Restrict(old, KeysWith(old, {USER_PREFIX}))
    /\ \A T \in DOMAIN sessions' : \A v \in {"get", "list_app", "list_user"} :
         \A new \in {View(T, v)'} :
           IsMergedView(new, StateOf(app_states', T[1]),
                        StateOf(user_states', <<T[1], T[2]>>), sessions'[T].state)]_vars

(* reached: event e2 with keys of every scope was committed to session s1
   of u1 while session s2 of u1 existed: k2 is in s1's row only, the app's
   and the user's bucket hold e2's values *)
C14_Witness ==
  /\ Len(events[S1]) = 1 /\ events[S1][1].id = "e2"
  /\ S1 \in DOMAIN sessions /\ U1S2 \in DOMAIN sessions
  /\ K2 \in DOMAIN sessions[S1].state
  /\ K2 \notin DOMAIN View(U1S2, "get")
  /\ DictContains(View(U1S2, "list_user"), [k \in {AppK, UserK} |-> "e2"])

(* C15: splitting a delta into its app, user and session parts and merging
   the three parts with _merge_state gives back a mapping with exactly the
   delta's keys, scope prefixes restored, and the delta's values. *)
C15_MergeOfSplit ==
  ~IsNone(merged_view) =>
     /\ DOMAIN merged_view.state = DOMAIN flat_delta
     /\ \A k \in DOMAIN flat_delta : merged_view.state[k] = flat_delta[k]

(* a delta with a key of every scope, the three of them sharing their
   remainder and differing in value, has been split and merged *)
C15_Witness ==
  /\ ~IsNone(merged_view)
  /\ {K1, AppK, UserK, AppUserK} \subseteq DOMAIN flat_delta
  /\ flat_delta[K1] # flat_delta[AppK]
  /\ flat_delta[AppK] # flat_delta[UserK]
  /\ split_deltas.app # EmptyDict /\ split_deltas.user # EmptyDict
  /\ split_deltas.session # EmptyDict

(* C16: an append_event that commits puts every key of the event's
   state_delta into exactly one bucket: app: keys (prefix taken off) into
   the app's bucket, user: keys into the bucket of the session's user, every
   other key into the session's own state.  The incoming value replaces the
   stored one, every other stored key keeps its value, the bucket of the
   other user is not touched, and a get_session that follows shows the
   incoming value under every key of the delta. *)
C16_DeltaRoutedByPrefix ==
  [][(AppendEventCommit("A") /\ result' = "ok")
       => LET key == SessionKey(held["A"])
              state_delta == txn["A"].event.state_delta
              own == Unprefixed(state_delta)
              old == sessions[key].state
              new == sessions'[key].state
          IN /\ IsUpsert(StateOf(app_states', key[1]), StateOf(app_states, key[1]),
                         state_delta, APP_PREFIX)
             /\ IsUpsert(StateOf(user_states', <<key[1], key[2]>>),
                         StateOf(user_states, <<key[1], key[2]>>),
                         state_delta, USER_PREFIX)
             /\ \A u \in Users \ {key[2]} :
                  StateOf(user_states', <<key[1], u>>) = StateOf(user_states, <<key[1], u>>)
             /\ DOMAIN new = DOMAIN old \cup own
             /\ \A k \in own : new[k] = state_delta[k]
             /\ \A k \in DOMAIN old \ own : new[k] = old[k]
             /\ \A view \in {GetSessionResult(key, events[key]).state'} :
                  \A k \in DOMAIN state_delta :
                    k[1] # TEMP_PREFIX => k \in DOMAIN view /\ view[k] = state_delta[k]]_vars

(* reached: the session was created with k1, app:k1, user:k1, app:k2 and
   user:k2 at "v0"; event e1 replaced k1, then event e2 replaced app:k1 and
   user:k1 and added k2; the session's k1 still holds what e1 wrote, and
   app:k2 and user:k2 what create_session wrote *)
C16_Witness ==
  /\ S1 \in DOMAIN sessions
  /\ EventIdsOf(events[S1]) = {"e1", "e2"}
  /\ sessions[S1].state = (K1 :> "e1") @@ (K2 :> "e2")
  /\ StateOf(app_states, "a") = (K1 :> "e2") @@ (K2 :> "v0")
  /\ StateOf(user_states, <<"a", "u1">>) = (K1 :> "e2") @@ (K2 :> "v0")

-----------------------------------------------------------------------------
(* Vocabulary of the artifact claims.  The artifact key checked is file "f"
   of session s1. *)
FS1 == GetBlobName("a", "u1", F, <<>>, [id |-> "s1"])

NoCallInProgress == \A c \in Callers : IsNone(art[c])

(* the payload of an artifact, as bytes *)
ContentOf(artifact) ==
  IF ~IsNone(artifact.inline_data) THEN artifact.inline_data.data
  ELSE Utf8(artifact.text[1])

OnlySaves == \A i \in 1..Len(art_log) : art_log[i].op = "save"

IsLoadOfFS1 == art_ret.op = "load" /\ ~IsNone(art_ret.session_id)

(* C17: as long as calls have not overlapped and only saves were made to
   the key, starting with no versions, the i-th save returned i - 1,
   list_versions is {0, ..., N-1} once N saves have returned, and a load
   with version=None returns the content of the last save. *)
C17_SequentialSaves ==
  (~concurrent /\ OnlySaves) =>
     /\ \A i \in 1..Len(art_log) : art_log[i].version = i - 1
     /\ NoCallInProgress =>
          ListVersions("a", "u1", [id |-> "s1"], F) = 0..(Len(art_log) - 1)
     /\ (IsLoadOfFS1 /\ IsNone(art_ret.version_arg) /\ art_log # <<>>) =>
          /\ art_ret.kind = "part"
          /\ art_ret.part.inline_data.data = ContentOf(art_log[Len(art_log)].artifact)

(* C18: as long as calls have not overlapped, no two saves to the key have
   returned the same version number, whatever deletes came in between. *)
C18_VersionsNeverReused ==
  ~concurrent =>
     \A i, j \in 1..Len(art_log) :
        (/\ i < j
         /\ art_log[i].op = "save" /\ art_log[j].op = "save"
         /\ art_log[i].prefix = art_log[j].prefix)
          => art_log[i].version # art_log[j].version

(* C19: whenever no call is in progress, the stored versions of the key
   are none or 0, ..., k, also after calls of two callers have
   interleaved. *)
C19_VersionsDense ==
  NoCallInProgress =>
     LET versions == ListVersions("a", "u1", [id |-> "s1"], F)
     IN versions = {} \/ versions = 0..Max(versions)

(* C20: as long as calls have not overlapped, a load with version=None
   returns the content of the save that wrote the highest stored version,
   and None when the key has no versions; a load with an explicit version
   that is stored returns the content of the save that wrote it; a load
   with an explicit version that is not stored returns None or raises
   NotFound. *)
C20_LoadResolvesVersion ==
  [][\A c \in Callers, version_arg \in VersionArgs :
       (LoadArtifact(c, [id |-> "s1"], F, version_arg) /\ ~concurrent')
         => LET versions == ListVersions("a", "u1", [id |-> "s1"], F)
                version == IF IsNone(version_arg) THEN Max(versions)
                           ELSE version_arg.version
                saved == CHOOSE i \in 1..Len(art_log) :
                           /\ art_log[i].op = "save" /\ art_log[i].version = version
                           /\ \A j \in (i + 1)..Len(art_log) :
                                ~(art_log[j].op = "save" /\ art_log[j].version = version)
            IN IF IsNone(version_arg) /\ versions = {}
               THEN art_ret'.kind = "none"
               ELSE IF version \in versions
               THEN /\ art_ret'.kind = "part"
                    /\ art_ret'.part.inline_data.data = ContentOf(art_log[saved].artifact)
               ELSE art_ret'.kind \in {"none", "NotFound"}]_vars

(* C21: a save of a filename with the user-namespace marker and without a
   session id is accepted, gets the next version of its key and stores it;
   a save, load, list_versions or delete of a filename without the marker
   and without a session id raises ValueError and leaves the bucket and the
   caller's pending work as they are. *)
C21_ScopeByMarker ==
  [][/\ SaveList("A", None, UF, InlineSave)
          => (/\ ~IsNone(art'["A"])
              /\ art'["A"].version =
                   Cardinality({name \in DOMAIN blobs : FilenameSegment(name) = UF}))
     /\ (/\ ~IsNone(art["A"]) /\ art["A"].op = "save"
         /\ IsNone(art["A"].session_id)
         /\ SaveUpload("A"))
          => (/\ art_ret'.kind = "version"
              /\ art_ret'.version = art["A"].version
              /\ DOMAIN blobs' \ DOMAIN blobs # {})
     /\ (\/ SaveList("A", None, F, InlineSave)
         \/ LoadArtifact("A", None, F, None)
         \/ ListVersionsCall("A", None, F)
         \/ DeleteList("A", None, F))
          => (/\ art_ret'.kind = "ValueError"
              /\ UNCHANGED <<blobs, art, art_log>>)]_vars

(* reached: with a version of "user:f" stored by a save without session id
   and a version of "f" stored in session s1, a delete of "f" without
   session id was refused *)
C21_Witness ==
  /\ art_ret.op = "delete" /\ art_ret.kind = "ValueError"
  /\ Len(art_log) = 2
  /\ \E i \in 1..2 : art_log[i].filename = UF /\ IsNone(art_log[i].session_id)
  /\ \E i \in 1..2 : art_log[i].filename = F
  /\ Cardinality(DOMAIN blobs) = 2

(* the session-scoped artifact (session_id, filename) has been saved and
   not deleted since *)
LiveSave(session_id, filename) ==
  \E i \in 1..Len(art_log) :
     /\ art_log[i].op = "save"
     /\ art_log[i].session_id = session_id /\ art_log[i].filename = filename
     /\ \A j \in (i + 1)..Len(art_log) :
          ~(/\ art_log[j].op = "delete"
            /\ art_log[j].session_id = session_id /\ art_log[j].filename = filename)

(* the user-namespace artifact has been saved, from whatever session, and
   not deleted since *)
LiveUserSave(filename) ==
  \E i \in 1..Len(art_log) :
     /\ art_log[i].op = "save" /\ art_log[i].filename = filename
     /\ \A j \in (i + 1)..Len(art_log) :
          ~(art_log[j].op = "delete" /\ art_log[j].filename = filename)

(* C22: a session-scoped filename is listed by list_keys, has versions in
   list_versions and is loaded only for the session id it was saved under,
   never without a session id or under another one; a user-namespace
   artifact that was saved is loaded and has versions under every session
   id and without one. *)
C22_NamespacesIsolated ==
  [][/\ \A session_id \in SessionIdArgs({"s1", "user"}) :
          ListArtifactKeys("A", session_id)
            => \A i \in 1..Len(art_ret'.filenames) :
                 LET filename == art_ret'.filenames[i]
                 IN IF FileHasUserNamespace(filename) THEN LiveUserSave(filename)
                    ELSE ~IsNone(session_id) /\ LiveSave(session_id, filename)
     /\ \A k \in NamespaceKeys :
          IF k.filename = F
          THEN /\ (ListVersionsCall("A", k.session_id, F) /\ art_ret'.versions # {})
                    => LiveSave(k.session_id, F)
               /\ (LoadArtifact("A", k.session_id, F, None) /\ art_ret'.kind = "part")
                    => LiveSave(k.session_id, F)
          ELSE /\ (LiveUserSave(UF) /\ ListVersionsCall("A", k.session_id, UF))
                    => art_ret'.versions # {}
               /\ (LiveUserSave(UF) /\ LoadArtifact("A", k.session_id, UF, None))
                    => art_ret'.kind = "part"]_vars

(* C23: list_keys answers with the filenames, as they were passed to save,
   that have a stored version in the given session (when a session id is
   given) or in the user namespace, each once and in the order of the
   strings. *)
C23_ListKeys ==
  [][\A session_id \in SessionIdArgs({"s1"}) :
       ListArtifactKeys("A", session_id)
         => LET filenames == art_ret'.filenames
                stored == {k \in PathKeys :
                             IF FileHasUserNamespace(k.filename)
                             THEN LiveUserSave(k.filename)
                             ELSE /\ k.session_id = session_id
                                  /\ LiveSave(session_id, k.filename)}
            IN /\ {filenames[i] : i \in 1..Len(filenames)} = {k.filename : k \in stored}
               /\ \A i, j \in 1..Len(filenames) :
                    i < j => StrLess(filenames[i], filenames[j])]_vars

(* the key (session_id, filename) as the service addresses it *)
SameKey(entry, session_id, filename) ==
  /\ entry.filename = filename
  /\ FileHasUserNamespace(filename) \/ entry.session_id = session_id

(* C24: when a delete of a key has ended, it has returned without an error,
   list_versions of the key is empty and a load with version=None answers
   None, and every version of another key that was saved and not deleted
   since is stored with the content it was saved with. *)
C24_DeleteRemovesKey ==
  (/\ art_ret.op = "delete" /\ art_ret.kind # "ValueError"
   /\ IsNone(art["A"]))
    => /\ art_ret.kind = "none"
       /\ ListVersions("a", "u1", art_ret.session_id, art_ret.filename) = {}
       /\ LoadArtifactResult(art_ret.session_id, art_ret.filename, None).kind = "none"
       /\ \A i \in 1..Len(art_log) :
            (/\ art_log[i].op = "save"
             /\ ~SameKey(art_log[i], art_ret.session_id, art_ret.filename)
             /\ \A j \in (i + 1)..Len(art_log) :
                  ~(/\ art_log[j].op = "delete"
                    /\ SameKey(art_log[j], art_log[i].session_id, art_log[i].filename)))
              => LET name == GetBlobName("a", "u1", art_log[i].filename,
                                         Str(art_log[i].version), art_log[i].session_id)
                 IN /\ name \in DOMAIN blobs
                    /\ blobs[name].data = ContentOf(art_log[i].artifact)

(* C25: a save whose artifact carries file_data (and neither inline_data
   nor text) returns the version computed for the key and uploads
   nothing. *)
C25_FileDataAccepted ==
  [][\A c \in Callers :
       (/\ ~IsNone(art[c]) /\ art[c].op = "save"
        /\ IsNone(art[c].artifact.inline_data) /\ ~Truthy(art[c].artifact.text)
        /\ ~IsNone(art[c].artifact.file_data)
        /\ SaveUpload(c))
         => /\ art_ret'.kind = "version"
            /\ art_ret'.version = art[c].version
            /\ UNCHANGED blobs]_vars

(* the events of the log as a caller sees them *)
LogEvents ==
  [i \in 1..Len(get_log) |-> [id |-> get_log[i].id,
                              timestamp |-> ToTimestamp(get_log[i].timestamp),
                              partial |-> FALSE, state_delta |-> EmptyDict]]

AfterTimestamp(event) == event.timestamp >= get_config.after_timestamp.value

(* the events with timestamp >= after_timestamp when one is given, cut to the
   last num_recent_events of them when a number is given, oldest first;
   between events of equal timestamp either order is chronological *)
FilteredEvents ==
  LET satisfying == IF ~IsNone(get_config) /\ Given(get_config.after_timestamp)
                    THEN SelectSeq(LogEvents, AfterTimestamp)
                    ELSE LogEvents
      n == IF ~IsNone(get_config) /\ Given(get_config.num_recent_events)
           THEN get_config.num_recent_events.value
           ELSE Len(satisfying)
  IN { LastN(ordered, n) : ordered \in OrderByTimestamp(satisfying) }

(* C26: on both backends get_session returns the events with timestamp >=
   after_timestamp (when given), cut to the last num_recent_events of them
   (when given), in chronological order; with both options it is the last N
   of the events that pass the timestamp filter *)
C26_EventFilter ==
  ~IsNone(get_events) => get_events.events \in FilteredEvents

(* C27: list_sessions(app, user?) returns exactly the existing sessions of
   the app (of the user when one is given), each once, each with no events
   and with the merged view of its own row, its own user's bucket and the
   app's bucket as state; in particular with no user given a session shows
   the user: keys of its own user only *)
C27_ListSessions ==
  [][\A user_id \in UserIdArgs :
       (UNCHANGED <<now, writes, txn, held, storage>> /\ ListSessions("A", "a", user_id))
         => LET matching == {k \in DOMAIN sessions :
                               k[1] = "a" /\ (IsNone(user_id) \/ k[2] = user_id.id)}
            IN /\ {SessionKey(s) : s \in listed'} = matching
               /\ Cardinality(listed') = Cardinality(matching)
               /\ \A s \in listed' :
                    /\ s.events = <<>>
                    /\ IsMergedView(s.state, StateOf(app_states, "a"),
                                    StateOf(user_states, <<"a", s.user_id>>),
                                    sessions[SessionKey(s)].state)
                    /\ \A k \in KeysWith(s.state, {USER_PREFIX}) :
                         /\ Tail(k) \in DOMAIN StateOf(user_states, <<"a", s.user_id>>)
                         /\ s.state[k] = StateOf(user_states, <<"a", s.user_id>>)[Tail(k)]]_vars

(* reached: a listing without user returned the session of u1 and the
   session of u2; u1's shows e2's value under user:k, which u2's does not,
   and both stores hold events that the listing left out *)
C27_Witness ==
  /\ Cardinality(listed) = 2
  /\ events[S1] # <<>>
  /\ \E s, t \in listed :
       /\ s.user_id = "u1" /\ t.user_id = "u2"
       /\ s.events = <<>> /\ t.events = <<>>
       /\ UserK \in DOMAIN s.state /\ s.state[UserK] = "e2"
       /\ (UserK \notin DOMAIN t.state \/ t.state[UserK] # "e2")
       /\ AppK \in DOMAIN t.state /\ t.state[AppK] = "e2"

(* the schemes under which a factory counts as registered for the URI's
   scheme: the scheme exactly as the URI spells it, or (schemes being
   case-insensitive) any spelling that differs from it in case only *)
RegisteredFor(registered, uri, reading) ==
  IF reading = "exact"
  THEN {scheme \in DOMAIN registered : scheme = uri.scheme}
  ELSE {scheme \in DOMAIN registered : Lower(scheme) = Lower(uri.scheme)}

(* the call handed the URI to a factory registered for its scheme and ended
   as the factory did; without scheme or without registered factory it
   returned None and called no factory.  Either way of comparing schemes
   is accepted *)
Dispatched(registered, uri) ==
  \E reading \in {"exact", "caseless"} :
    IF uri.scheme # <<>> /\ RegisteredFor(registered, uri, reading) # {}
    THEN \E scheme \in RegisteredFor(registered, uri, reading) :
           /\ reg_ret'.called = registered[scheme]
           /\ reg_ret'.raised = FactoryCall(registered[scheme], uri).raised
           /\ reg_ret'.class = FactoryCall(registered[scheme], uri).class
    ELSE reg_ret'.called = "none" /\ reg_ret'.raised = "" /\ reg_ret'.class = "None"

(* C28: create_session_service and create_artifact_service return what the
   factory most recently registered for the URI's scheme produces, and None,
   calling no factory, when the URI has no scheme or no factory is registered
   for it; registering a scheme for one kind of service makes that factory
   the one of the scheme for that kind and leaves the other kinds' factories
   as they were *)
C28_BackendSelection ==
  [][/\ \A uri \in Uris :
          /\ CreateSessionService(uri) => Dispatched(session_factories, uri)
          /\ CreateArtifactService(uri) => Dispatched(artifact_factories, uri)
     /\ \A scheme \in Schemes, factory \in CustomFactories :
          /\ RegisterSessionService(scheme, factory)
               => /\ session_factories'[scheme] = factory
                  /\ UNCHANGED <<artifact_factories, memory_factories>>
          /\ RegisterArtifactService(scheme, factory)
               => /\ artifact_factories'[scheme] = factory
                  /\ UNCHANGED <<session_factories, memory_factories>>
          /\ RegisterMemoryService(scheme, factory)
               => /\ memory_factories'[scheme] = factory
                  /\ UNCHANGED <<session_factories, artifact_factories>>]_vars

(* the state_delta of the event committed to the session of caller c, empty
   when none was *)
CommittedDelta(c) ==
  IF events[SharedKeys[c]] = <<>> THEN EmptyDict
  ELSE events[SharedKeys[c]][1].state_delta

(* bucket holds, prefix taken off, every key of the given prefix of delta
   with the delta's value *)
HoldsDelta(bucket, delta, prefix) ==
  \A k \in KeysWith(delta, {prefix}) :
    Tail(k) \in DOMAIN bucket /\ bucket[Tail(k)] = delta[k]

(* C29: when the append_event calls of two sessions of one app and one user
   have both committed and their deltas write disjoint keys, AppState holds
   the value each delta gave to its app: keys and UserState the value each
   gave to its user: keys, also when the two calls ran concurrently *)
C29_DisjointKeysMerged ==
  LET dA == CommittedDelta("A")
      dB == CommittedDelta("B")
  IN (dA # EmptyDict /\ dB # EmptyDict /\ DOMAIN dA \cap DOMAIN dB = {})
       => \A d \in {dA, dB} :
            /\ HoldsDelta(StateOf(app_states, "a"), d, APP_PREFIX)
            /\ HoldsDelta(StateOf(user_states, <<"a", "u1">>), d, USER_PREFIX)

(* C30: a save writes under the version it computed from its own listing,
   whatever was written to the key since: it returns that version and the
   object of that version then holds its content, replacing the object a
   save that listed the same versions has written.  So two saves of one
   key that overlap can return the same version, and the content of the
   one that wrote first is then under no version. *)
C30_VersionNotAtomic ==
  [][\A c \in Callers :
       (art_log' # art_log /\ ~IsNone(art[c]) /\ SaveUpload(c))
         => LET blob_name == GetBlobName("a", "u1", art[c].filename,
                                         Str(art[c].version), art[c].session_id)
            IN /\ art_ret'.kind = "version"
               /\ art_ret'.version = art[c].version
               /\ blob_name \in DOMAIN blobs'
               /\ blobs'[blob_name].data = ContentOf(art[c].artifact)
               /\ \A name \in DOMAIN blobs \ {blob_name} :
                    name \in DOMAIN blobs' /\ blobs'[name] = blobs[name]]_vars

(* reached: two overlapping saves of file "f" of session s1 with different
   content both returned version 0; the key has the one version 0, which
   holds the content of the save that wrote second, and no object of the
   key holds the content of the first *)
C30_Witness ==
  /\ concurrent /\ NoCallInProgress
  /\ Len(art_log) = 2 /\ OnlySaves
  /\ art_log[1].prefix = FS1 /\ art_log[2].prefix = FS1
  /\ art_log[1].version = 0 /\ art_log[2].version = 0
  /\ ContentOf(art_log[1].artifact) # ContentOf(art_log[2].artifact)
  /\ ContentOf(art_log[1].artifact) # <<>>
  /\ ListVersions("a", "u1", [id |-> "s1"], F) = {0}
  /\ \A name \in ListBlobs(FS1) :
       /\ blobs[name].data = ContentOf(art_log[2].artifact)
       /\ blobs[name].data # ContentOf(art_log[1].artifact)

(* every session that exists has the row of its app and the row of its user *)
BucketsExist ==
  \A k \in DOMAIN sessions :
    k[1] \in DOMAIN app_states /\ <<k[1], k[2]>> \in DOMAIN user_states

(* C31: the app's and the user's bucket come into being with a create_session
   and stay: every existing session has both rows, so an append_event on an
   existing session reads both; delete_session leaves the rows and their keys
   as they are, also when it deletes the last session of the user or the
   app, and the merged view a later create_session returns shows the keys
   the buckets held, with the values of its own initial state on top *)
C31_BucketsLazyAndPersistent ==
  /\ []BucketsExist
  /\ [][/\ DOMAIN app_states \subseteq DOMAIN app_states'
        /\ DOMAIN user_states \subseteq DOMAIN user_states'
        /\ (DOMAIN app_states' # DOMAIN app_states
              \/ DOMAIN user_states' # DOMAIN user_states)
             => DOMAIN sessions' \ DOMAIN sessions # {}
        /\ \A k \in ScopeKeys :
             /\ (writes' # writes /\ DeleteSession("A", "a", k[1], k[2]))
                  => UNCHANGED <<app_states, user_states>>
             /\ \A state \in InitialStates :
                  (writes' # writes /\ <<"a", k[1], k[2]>> \notin DOMAIN sessions
                     /\ CreateSession("A", "a", k[1], state, [id |-> k[2]], {}))
                    => LET app_state == StateOf(app_states, "a")
                           user_state == StateOf(user_states, <<"a", k[1]>>)
                           view == held'["A"].state
                       IN /\ Prefixed(APP_PREFIX, DOMAIN app_state)
                               \cup Prefixed(USER_PREFIX, DOMAIN user_state)
                               \subseteq DOMAIN view
                          /\ \A key \in DOMAIN app_state :
                               <<APP_PREFIX>> \o key \notin DOMAIN state
                                 => view[<<APP_PREFIX>> \o key] = app_state[key]
                          /\ \A key \in DOMAIN user_state :
                               <<USER_PREFIX>> \o key \notin DOMAIN state
                                 => view[<<USER_PREFIX>> \o key] = user_state[key]
        /\ \A event \in Events :
             (writes' # writes /\ AppendEventRead("A", event))
               => /\ ~IsNone(txn'["A"].storage_app_state)
                  /\ ~IsNone(txn'["A"].storage_user_state)]_vars

(* reached: the session whose create_session wrote app:k1, user:k1, app:k2
   and user:k2 at "v0" has been deleted; session s1 of u1, created with an
   empty initial state, is the only session, its own state is empty and the
   view its caller holds shows the four bucket keys *)
C31_Witness ==
  /\ DOMAIN sessions = {S1}
  /\ sessions[S1].state = EmptyDict
  /\ writes = MaxWrites
  /\ Holds("A", S1)
  /\ held["A"].state = [k \in {AppK, UserK, AppK2, UserK2} |-> "v0"]

(* the step commits an append_event to session S *)
IsCommitTo(S) ==
  /\ ~IsNone(txn["A"])
  /\ Holds("A", S)
  /\ AppendEventCommit("A")

(* C32: the stored state, the event log and the stored update time of a
   session S change only when an append_event on S commits: create_session
   and append_event on another session, get_session, list_sessions and the
   artifact operations leave them as they are, and S goes away only by a
   delete_session of S *)
C32_OnlyAppendMutates ==
  [][\A S \in DOMAIN sessions :
       /\ (S \in DOMAIN sessions' /\ (sessions'[S] # sessions[S] \/ events'[S] # events[S]))
            => IsCommitTo(S)
       /\ S \notin DOMAIN sessions'
            => (writes' # writes /\ DeleteSession("A", S[1], S[2], S[3]))]_vars

(* reached: session s1 of u1 still has the state it was created with and
   no event, after a session of u2 was created with an initial state of
   every scope, a listing returned both sessions and a version of file "f"
   was saved *)
C32_Witness ==
  /\ S1 \in DOMAIN sessions /\ U2S1 \in DOMAIN sessions
  /\ sessions[S1].state = EmptyDict
  /\ events[S1] = <<>>
  /\ sessions[U2S1].state = (K1 :> "v0")
  /\ Holds("A", U2S1)
  /\ Cardinality(listed) = 2
  /\ blobs # <<>>

(* the i-th logged call is a save of file "f" of session s1 that returned
   version v, and no delete of the key was made after it *)
SavedAndKept(i, v) ==
  /\ art_log[i].op = "save" /\ art_log[i].prefix = FS1 /\ art_log[i].version = v
  /\ \A j \in (i + 1)..Len(art_log) :
       ~(art_log[j].op = "delete" /\ art_log[j].prefix = FS1)

(* C33: as long as calls have not overlapped, a load with version=v that
   follows a save which returned v, with no delete of the key in between,
   returns the content that was saved, whatever its length, and neither
   None nor NotFound *)
C33_RoundTrip ==
  [][\A c \in Callers, version_arg \in VersionArgs \ {None} :
       (~concurrent' /\ LoadArtifact(c, [id |-> "s1"], F, version_arg))
         => \A i \in 1..Len(art_log) :
              SavedAndKept(i, version_arg.version)
                => /\ art_ret'.kind = "part"
                   /\ art_ret'.part.inline_data.data = ContentOf(art_log[i].artifact)]_vars

(* the versions stored under the key itself: those v for which the object
   named by the key and v is in the bucket *)
OwnVersions(k) ==
  {v \in 0..(Len(DecimalDigits) - 1) :
     GetBlobName("a", "u1", k.filename, Str(v), k.session_id) \in DOMAIN blobs}

(* C34: keys of one app and user do not meet through a path prefix, as
   with filenames "f" and "f/g": list_versions of a key gives the versions
   stored under that key and none stored under another one, so that a save
   takes its next version from its own versions only *)
C34_NoPrefixInterference ==
  \A k \in PathKeys :
    ListVersions("a", "u1", k.session_id, k.filename) = OwnVersions(k)

(* the payload is neither inline bytes nor a text that is not empty *)
NoPayload(artifact) ==
  IsNone(artifact.inline_data) /\ (artifact.text = <<>> \/ artifact.text[1] = "")

(* C35: a save with custom_metadata, without session id for a filename of
   a session, with a file reference or with neither bytes nor non-empty text
   as payload is rejected with an error and writes nothing: the bucket,
   and with it the versions and the content of every key and the version the
   next save gets, is as before, and the save is not among those that
   returned *)
C35_RejectedSaveWritesNothing ==
  [][\A c \in Callers :
       /\ (IsNone(art[c]) /\ art' = art /\ art_ret'.op = "save")
            => \A k \in ArtifactKeys, args \in SaveArgs :
                 SaveList(c, k.session_id, k.filename, args)
                   => /\ args.custom_metadata \/ IsNone(k.session_id)
                      /\ art_ret'.kind = IF args.custom_metadata
                                         THEN "NotImplementedError"
                                         ELSE "ValueError"
                      /\ UNCHANGED <<blobs, art_log>>
       /\ (IsNone(art[c]) /\ ~IsNone(art'[c]) /\ art'[c].op = "save")
            => /\ UNCHANGED <<blobs, art_log>>
               /\ ~IsNone(art'[c].session_id)
       /\ (~IsNone(art[c]) /\ art[c].op = "save" /\ IsNone(art'[c]))
            => IF NoPayload(art[c].artifact)
               THEN /\ art_ret'.kind \in {"NotImplementedError", "ValueError"}
                    /\ UNCHANGED <<blobs, art_log>>
                    /\ \A k \in ArtifactKeys :
                         ~SessionIdMissing(k.filename, k.session_id)
                           => ListVersions("a", "u1", k.session_id, k.filename)'
                                = ListVersions("a", "u1", k.session_id, k.filename)
               ELSE art_ret'.kind = "version"]_vars

(* reached: after a save of file "f" that returned version 0, a save with
   a file reference listed the versions and was rejected; the key still has
   the one version with its content, and one save has returned *)
C35_Witness ==
  /\ ~concurrent /\ NoCallInProgress
  /\ art_ret.op = "save" /\ art_ret.kind = "NotImplementedError"
  /\ writes = 2
  /\ Len(art_log) = 1 /\ art_log[1].op = "save" /\ art_log[1].version = 0
  /\ ListVersions("a", "u1", [id |-> "s1"], F) = {0}
  /\ \A name \in ListBlobs(FS1) : blobs[name].data = ContentOf(art_log[1].artifact)

(* the stored events of every session have different ids *)
UniqueIds ==
  \A key \in DOMAIN events :
    \A i, j \in 1..Len(events[key]) :
      events[key][i].id = events[key][j].id => i = j

(* the commit of caller c's append_event, of an event whose id is the id of
   an event stored for the session *)
CommitsStoredId(c) ==
  /\ ~IsNone(txn[c]) /\ IsNone(txn'[c])
  /\ SessionKey(held[c]) \in DOMAIN sessions
  /\ txn[c].event.id \in EventIdsOf(events[SessionKey(held[c])])

(* C36: the events stored for one session never share an id; the commit of
   an append_event whose event id is stored for the session already fails
   and leaves the events and the session, app and user state as they are *)
C36_UniqueEventIds ==
  /\ []UniqueIds
  /\ [][\A c \in Callers :
          CommitsStoredId(c)
            => /\ result' = "CommitError"
               /\ UNCHANGED <<events, sessions, app_states, user_states>>]_vars

(* reached: the session exists with one event stored; one create_session
   and two append_event calls were made and the last one failed at commit *)
C36_Witness ==
  /\ writes = 3
  /\ S1 \in DOMAIN sessions /\ Len(events[S1]) = 1
  /\ result = "CommitError"
  /\ \A c \in Callers : IsNone(txn[c])

(* C37: an append_event call of VertexAiSessionService with a complete
   (not partial) event adds the event to
   the caller's session.events exactly when the Agent Engine stored it, and
   a call whose remote append fails leaves the caller's session as it was *)
C37_MemoryMirrorsStorage ==
  [][\A c \in Callers, event \in Events :
       (writes' # writes /\ HasSession(c) /\ VxAppendEvent(c, event))
         => LET in_memory == held'[c].events # held[c].events
                persisted == vx_events' # vx_events
            IN /\ in_memory <=> persisted
               /\ ~persisted => held' = held]_vars

(* the same for DatabaseSessionService: the commit step of append_event adds
   the event to the caller's session.events exactly when the event row was
   stored, and a failed commit leaves the caller's session as it was *)
C37_MemoryMirrorsStorageDb ==
  [][\A c \in Callers :
       (~IsNone(txn[c]) /\ IsNone(txn'[c]))
         => LET in_memory == held'[c].events # held[c].events
                persisted == events' # events
            IN /\ in_memory <=> persisted
               /\ ~persisted => held' = held]_vars

(* a session that is not stored has no event rows *)
NoOrphanEvents ==
  \A key \in DOMAIN events : key \notin DOMAIN sessions => events[key] = <<>>

(* C38: a deleted session leaves no event behind; create_session with the
   id of a session that is not stored gives a session with no events and
   with the session-scoped keys of its initial state only, in storage and
   in the session it returns; get_session returns the events and the
   session-scoped state that are stored, so that after delete_session and
   create_session it shows nothing of the deleted session *)
C38_NoResurrection ==
  /\ []NoOrphanEvents
  /\ [][/\ \A state \in InitialStates :
             (S1 \notin DOMAIN sessions /\ writes' # writes
                /\ CreateSession("A", "a", "u1", state, [id |-> "s1"], {}))
               => /\ events'[S1] = <<>>
                  /\ sessions'[S1].state = ExtractStateDelta(state).session
                  /\ held'["A"].events = <<>>
                  /\ ExtractStateDelta(held'["A"].state).session
                       = ExtractStateDelta(state).session
        /\ (S1 \in DOMAIN sessions /\ UNCHANGED <<writes, txn, storage>>
              /\ GetSession("A", "a", "u1", "s1"))
             => /\ EventIdsOf(held'["A"].events) = EventIdsOf(events[S1])
                /\ Len(held'["A"].events) = Len(events[S1])
                /\ ExtractStateDelta(held'["A"].state).session = sessions[S1].state]_vars

(* reached: the session that had the key k1 and an event was deleted and
   created again with an empty initial state, and get_session returned it
   without events and without k1, with the app-scoped key of the first
   create_session *)
C38_Witness ==
  /\ writes = 2
  /\ S1 \in DOMAIN sessions /\ events[S1] = <<>>
  /\ sessions[S1].state = EmptyDict
  /\ Holds("A", S1) /\ snap["A"] = "fresh"
  /\ held["A"].events = <<>>
  /\ DOMAIN held["A"].state = {AppK, AppK2, UserK, UserK2}

(* C39: get_session for a user never returns the session of another user.
   DatabaseSessionService returns the session stored for (app, user, id),
   with its state and its events, or None when there is none, also when the
   id is that of a session of another user; VertexAiSessionService raises
   ValueError for the id of a session of another user and returns nothing *)
C39_CrossUserIsolation ==
  [][\A user_id \in Users, session_id \in SessionIds :
       /\ (UNCHANGED <<writes, txn, storage, vxvars>>
             /\ GetSession("A", "a", user_id, session_id))
            => LET key == <<"a", user_id, session_id>>
               IN IF key \in DOMAIN sessions
                  THEN /\ held'["A"].user_id = user_id
                       /\ ExtractStateDelta(held'["A"].state).session
                            = sessions[key].state
                       /\ EventIdsOf(held'["A"].events) = EventIdsOf(events[key])
                  ELSE IsNone(held'["A"])
       /\ (UNCHANGED <<writes, txn, storage, vxvars>>
             /\ session_id \in DOMAIN vx_sessions
             /\ VxGetSession("B", "a", user_id, session_id))
            => IF vx_sessions[session_id].user_id = user_id
               THEN /\ result' = "ok"
                    /\ held'["B"].user_id = user_id
                    /\ held'["B"].state = vx_sessions[session_id].session_state
               ELSE /\ result' = "ValueError"
                    /\ UNCHANGED held]_vars

(* reached: the Agent Engine has one session, of user u2, with state; it
   was appended to, and the last call, a get_session of
   VertexAiSessionService, raised ValueError and left the caller with the
   session it held; the database has the session s1 of u2 and caller A,
   who asked for s1, holds none *)
C39_Witness ==
  /\ writes = 3
  /\ DOMAIN vx_sessions = {"s1"}
  /\ vx_sessions["s1"].user_id = "u2"
  /\ K1 \in DOMAIN vx_sessions["s1"].session_state
  /\ Len(vx_events["s1"]) = 1
  /\ result = "ValueError"
  /\ Holds("B", U2S1) /\ Len(held["B"].events) = 1
  /\ DOMAIN sessions = {U2S1}
  /\ K1 \in DOMAIN sessions[U2S1].state
  /\ IsNone(held["A"])

=============================================================================
